---------------------------- MODULE Spec2Model ----------------------------
(***************************************************************************)
(* A model of the hallucination detection framework:                       *)
(*   src/src/detection/hallucination_detector.py  (HallucinationDetector)  *)
(*   src/src/evaluation/metrics.py                (EvaluationMetrics)      *)
(*   src/src/models/llm_wrapper.py    (RateLimiter, batch_generate)        *)
(*                                                                         *)
(* Texts are sequences of one-character strings, so that strip, lower,     *)
(* punctuation removal, split and the regular expressions are computed     *)
(* character by character as Python computes them.  Python floats are      *)
(* modelled as exact rationals <<numerator, denominator>> in lowest terms. *)
(* Every entry point has a specification of its own (SpecAgg, SpecFact,    *)
(* SpecDet, SpecTemp, SpecEntity, SpecMulti, SpecEval, SpecCompare,        *)
(* SpecRate, SpecBatch), and SpecDetector joins those of the detector;     *)
(* all are over the same variables.                                        *)
(***************************************************************************)
EXTENDS Integers, Sequences, FiniteSets, TLC

VARIABLES
    results,        \* aggregate_detection_results: the values of the mapping passed in, in insertion order
    aggregated,     \* aggregate_detection_results: <<>> before the call, <<returned tuple>> after
    claim,          \* detect_factual_error: the claim argument
    ground_truth,   \* detect_factual_error: the ground_truth argument
    factual,        \* detect_factual_error: <<>> before the call, <<HallucinationResult>> after
    entry,          \* the detector method the caller invoked ("idle": none)
    pc,             \* where that call stands: a label of the code, "returned" or "raised"
    num_samples,    \* detect_self_consistency: the num_samples argument
    text,           \* detect_contradiction: the text argument; multi_method_detection: response_text
    mm_methods,     \* multi_method_detection: the methods argument, <<>> for None, <<list>> otherwise
    mm_truth,       \* multi_method_detection: ground_truth, <<>> for None, <<str>> otherwise
    methods,        \* multi_method_detection: the local methods list
    mm_results,     \* multi_method_detection: the local results dict, <<name, result>> pairs in insertion order
    i,              \* detect_self_consistency, batch_generate: passes of the loop made so far (the loop index)
    responses,      \* detect_self_consistency, batch_generate: the local responses list
    llm_calls,      \* the outcomes of the generate calls issued during the call, in call order
                    \* (batch_generate: each with the prompt it was given)
    ret,            \* <<>> until the call returns, then <<returned value>>
    context_year,   \* detect_temporal_error: context_year, <<>> for None, <<int>> otherwise
    expected_entities,  \* detect_entity_hallucination: the expected_entities list
    metric,         \* the EvaluationMetrics static method the caller invoked ("idle": none)
    args,           \* that call's arguments, a record keyed by the parameter names
    metric_ret,     \* <<>> before the call, then <<"returned", value>> or <<"raised", exception>>
    self,           \* the HallucinationDetector object: its fields llm and knowledge_base
    prompts,        \* batch_generate: the prompts list
    limiter,        \* <<>> or <<the RateLimiter object: its fields max_calls and calls>>
    clock,          \* time.time(), in seconds
    passed          \* the times at which wait_if_needed returned, in call order

aggVars  == <<results, aggregated>>
factVars == <<claim, ground_truth, factual>>
detVars  == <<entry, pc, num_samples, text, mm_methods, mm_truth, methods, mm_results,
              i, responses, llm_calls, ret>>
argVars  == <<context_year, expected_entities>>
evalVars == <<metric, args, metric_ret>>
objVars  == <<self>>
llmVars  == <<prompts, limiter, clock, passed>>
vars     == <<aggVars, factVars, detVars, argVars, evalVars, objVars, llmVars>>

-----------------------------------------------------------------------------
(* Python values *)

\* Python's None, where a string is expected otherwise.
None == "<None>"

\* An optional value: <<>> is "nothing yet", <<v>> is v.
Some(v) == <<v>>
Get(o)  == o[1]
IsSome(o) == Len(o) = 1

-----------------------------------------------------------------------------
(* Floats as exact rationals <<n, d>>, d > 0, in lowest terms *)

Abs(n) == IF n < 0 THEN -n ELSE n

RECURSIVE GCD(_, _)
GCD(a, b) == IF b = 0 THEN a ELSE GCD(b, a % b)

R(n, d) ==
    LET g == GCD(Abs(n), Abs(d))
        s == IF d < 0 THEN -1 ELSE 1
    IN  IF n = 0 THEN <<0, 1>> ELSE <<(s * n) \div g, (s * d) \div g>>

RInt(n)    == <<n, 1>>
RAdd(a, b) == R(a[1] * b[2] + b[1] * a[2], a[2] * b[2])
RSub(a, b) == R(a[1] * b[2] - b[1] * a[2], a[2] * b[2])
RMul(a, b) == R(a[1] * b[1], a[2] * b[2])
RDiv(a, b) == R(a[1] * b[2], a[2] * b[1])
RAbs(a)    == <<Abs(a[1]), a[2]>>
RLt(a, b)  == a[1] * b[2] < b[1] * a[2]
RLe(a, b)  == a[1] * b[2] <= b[1] * a[2]

RECURSIVE RSum(_)
RSum(s) == IF s = <<>> THEN RInt(0) ELSE RAdd(Head(s), RSum(Tail(s)))

\* np.mean of a non-empty list
np_mean(s) == RDiv(RSum(s), RInt(Len(s)))

-----------------------------------------------------------------------------
(* Lists *)

\* x in list
In(name, list) == \E k \in DOMAIN list : list[k] = name

Range(s) == {s[k] : k \in DOMAIN s}

Count(s, x) == Cardinality({k \in DOMAIN s : s[k] = x})

FirstIndex(s, x) == CHOOSE k \in DOMAIN s : s[k] = x /\ \A j \in 1..(k - 1) : s[j] # x

\* Counter(s).most_common(1)[0] for a non-empty list: <<element, count>>.  The
\* Counter keeps first-occurrence order and most_common(1) is max() over it, which
\* returns the first of several elements with the highest count.
most_common_1(s) ==
    LET best == CHOOSE x \in Range(s) :
                    \A y \in Range(s) :
                        \/ Count(s, y) < Count(s, x)
                        \/ Count(s, y) = Count(s, x) /\ FirstIndex(s, x) <= FirstIndex(s, y)
    IN  <<best, Count(s, best)>>

\* All sequences over S of length 0..n
SeqsUpTo(S, n) == UNION {[1..k -> S] : k \in 0..n}

-----------------------------------------------------------------------------
(* Text: a str is a sequence of one-character strings *)

\* str.isspace characters that occur in the modelled texts
Whitespace == {" ", "\t", "\n"}

\* string.punctuation (without the backquote, which a TLA+ string cannot hold and
\* which no modelled text contains)
Punctuation ==
    {"!", "\"", "#", "$", "%", "&", "'", "(", ")", "*", "+", ",", "-", ".", "/",
     ":", ";", "<", "=", ">", "?", "@", "[", "\\", "]", "^", "_", "{", "|",
     "}", "~"}

Digits == <<"0", "1", "2", "3", "4", "5", "6", "7", "8", "9">>
DigitValues == [c \in {Digits[k] : k \in DOMAIN Digits} |->
                    (CHOOSE k \in DOMAIN Digits : Digits[k] = c) - 1]
IsDigit(c) == c \in DOMAIN DigitValues
DigitValue(c) == DigitValues[c]

UpperLetters ==
    <<"A", "B", "C", "D", "E", "F", "G", "H", "I", "J", "K", "L", "M",
      "N", "O", "P", "Q", "R", "S", "T", "U", "V", "W", "X", "Y", "Z">>
LowerLetters ==
    <<"a", "b", "c", "d", "e", "f", "g", "h", "i", "j", "k", "l", "m",
      "n", "o", "p", "q", "r", "s", "t", "u", "v", "w", "x", "y", "z">>
LowerOf == [c \in {UpperLetters[k] : k \in DOMAIN UpperLetters} |->
                LowerLetters[CHOOSE k \in DOMAIN UpperLetters : UpperLetters[k] = c]]
IsUpper(c) == c \in DOMAIN LowerOf
IsLower(c) == c \in {LowerLetters[k] : k \in DOMAIN LowerLetters}
LowerChar(c) == IF IsUpper(c) THEN LowerOf[c] ELSE c

\* str.lower()
lower(s) == [k \in DOMAIN s |-> LowerChar(s[k])]

\* str.strip()
RECURSIVE lstrip(_)
lstrip(s) == IF s # <<>> /\ Head(s) \in Whitespace THEN lstrip(Tail(s)) ELSE s
RECURSIVE rstrip(_)
rstrip(s) ==
    IF s # <<>> /\ s[Len(s)] \in Whitespace THEN rstrip(SubSeq(s, 1, Len(s) - 1)) ELSE s
strip(s) == rstrip(lstrip(s))

\* str.translate(str.maketrans('', '', string.punctuation)): delete the punctuation
remove_punctuation(s) == SelectSeq(s, LAMBDA c : c \notin Punctuation)

\* str.split(): the maximal runs of non-whitespace characters, in order
RECURSIVE SplitFrom(_, _)
SplitFrom(s, cur) ==
    IF s = <<>> THEN (IF cur = <<>> THEN <<>> ELSE <<cur>>)
    ELSE IF Head(s) \in Whitespace
         THEN (IF cur = <<>> THEN <<>> ELSE <<cur>>) \o SplitFrom(Tail(s), <<>>)
         ELSE SplitFrom(Tail(s), Append(cur, Head(s)))
split(s) == SplitFrom(s, <<>>)

\* sub in s
Contains(s, sub) ==
    \E k \in 0..(Len(s) - Len(sub)) : SubSeq(s, k + 1, k + Len(sub)) = sub

\* " ".join(words)
RECURSIVE Join(_)
Join(words) ==
    IF words = <<>> THEN <<>>
    ELSE IF Len(words) = 1 THEN words[1]
    ELSE words[1] \o <<" ">> \o Join(Tail(words))

-----------------------------------------------------------------------------
(* _extract_numbers: re.findall(r'-?\d+\.?\d*', txt), then float() *)

\* The index after the longest run of digits of s that starts at p
RECURSIVE DigitsEnd(_, _)
DigitsEnd(s, p) == IF p <= Len(s) /\ IsDigit(s[p]) THEN DigitsEnd(s, p + 1) ELSE p

\* The index after the match of -?\d+\.?\d* at p, or 0 when there is no match at p
NumberMatchEnd(s, p) ==
    LET j == IF s[p] = "-" THEN p + 1 ELSE p
        k == DigitsEnd(s, j)
        l == IF k <= Len(s) /\ s[k] = "." THEN k + 1 ELSE k
    IN  IF k = j THEN 0 ELSE DigitsEnd(s, l)

\* re.findall: the matches from left to right, not overlapping
RECURSIVE FindNumbers(_, _)
FindNumbers(s, p) ==
    IF p > Len(s) THEN <<>>
    ELSE LET e == NumberMatchEnd(s, p)
         IN  IF e = 0 THEN FindNumbers(s, p + 1)
             ELSE <<SubSeq(s, p, e - 1)>> \o FindNumbers(s, e)

RECURSIVE Pow10(_)
Pow10(n) == IF n = 0 THEN 1 ELSE 10 * Pow10(n - 1)

RECURSIVE DigitsValue(_)
DigitsValue(ds) ==
    IF ds = <<>> THEN 0 ELSE 10 * DigitsValue(SubSeq(ds, 1, Len(ds) - 1)) + DigitValue(ds[Len(ds)])

\* float(n) of a matched numeral: sign, integer digits, optional point and fraction
float(n) ==
    LET neg    == n[1] = "-"
        body   == IF neg THEN Tail(n) ELSE n
        ipart  == SelectSeq(SubSeq(body, 1, DigitsEnd(body, 1) - 1), LAMBDA c : TRUE)
        fpart  == SubSeq(body, Len(ipart) + 2, Len(body))
        mag    == R(DigitsValue(ipart) * Pow10(Len(fpart)) + DigitsValue(fpart), Pow10(Len(fpart)))
    IN  IF neg THEN <<-mag[1], mag[2]>> ELSE mag

_extract_numbers(txt) ==
    LET numbers == SelectSeq(FindNumbers(txt, 1), LAMBDA n : n # <<>> /\ n # <<".">>)
    IN  [k \in DOMAIN numbers |-> float(numbers[k])]

-----------------------------------------------------------------------------
(* HallucinationResult *)

HallucinationResult(h, c, t, e, m) ==
    [is_hallucination |-> h, confidence |-> c, hallucination_type |-> t,
     evidence |-> e, detection_method |-> m]

\* Python truthiness of an Optional[str]: None and "" are false.
Truthy(t) == t # None /\ t # ""

-----------------------------------------------------------------------------
(* aggregate_detection_results *)

\* line 433: sum(1 for r in results.values() if r.is_hallucination)
hallucination_votes(rs) == Len(SelectSeq(rs, LAMBDA r : r.is_hallucination))

\* Variant of line 437 without the filter: the confidences of every verdict.
voting_confidences_all(rs) == [k \in DOMAIN rs |-> rs[k].confidence]
\* line 437: [r.confidence for r in results.values() if r.is_hallucination]
voting_confidences(rs) ==
    LET voters == SelectSeq(rs, LAMBDA r : r.is_hallucination)
    IN  [k \in DOMAIN voters |-> voters[k].confidence]

\* Variant of line 441 with >= in place of >: a tie counts as a majority.
majority_vote_ge(votes, total) == RLe(RDiv(RInt(total), RInt(2)), RInt(votes))
\* line 441: hallucination_votes > total_methods / 2  (true division)
majority_vote(votes, total) == RLt(RDiv(RInt(total), RInt(2)), RInt(votes))

\* line 444: [r.hallucination_type for r in results.values() if r.hallucination_type]
typed_results(rs) ==
    LET typed == SelectSeq(rs, LAMBDA r : Truthy(r.hallucination_type))
    IN  [k \in DOMAIN typed |-> typed[k].hallucination_type]

\* rs: the values of the results mapping in insertion order (the code reads
\* results.values() only); returns (is_hallucination, confidence, primary_type).
aggregate_detection_results(rs) ==
    IF rs = <<>> THEN <<FALSE, RInt(0), "unknown">>
    ELSE
    LET total_methods    == Len(rs)
        confidences      == voting_confidences(rs)
        avg_confidence   == IF confidences # <<>> THEN np_mean(confidences) ELSE RInt(0)
        is_hallucination == majority_vote(hallucination_votes(rs), total_methods)
        types            == typed_results(rs)
        primary_type     == IF types # <<>> THEN most_common_1(types)[1] ELSE "unknown"
    IN  <<is_hallucination, avg_confidence, primary_type>>

\* Bounds and input domains of the aggregation specification
MaxResults == 3
AggConfidences == {R(0, 1), R(7, 10), R(1, 1)}
AggTypes == {None, "inconsistency", "factual_error"}
AggVerdicts ==
    {HallucinationResult(h, c, t, <<>>, "caller") :
        h \in BOOLEAN, c \in AggConfidences, t \in AggTypes}

FactIdle == claim = <<>> /\ ground_truth = <<>> /\ factual = <<>>
AggIdle  == results = <<>> /\ aggregated = <<>>
ArgIdle  == context_year = <<>> /\ expected_entities = <<>>
EvalIdle == metric = "idle" /\ args = <<>> /\ metric_ret = <<>>
\* lines 39-48: knowledge_base is <<>> for None, <<dict>> otherwise, and a dict
\* is the sequence of its items; self.knowledge_base = knowledge_base or {}
__init__(llm_wrapper, knowledge_base) ==
    [llm |-> llm_wrapper,
     knowledge_base |-> IF knowledge_base = <<>> THEN <<>> ELSE knowledge_base[1]]

\* the detector the calls are made on
KnowledgeBase == <<<<"capital of France", "Paris">>>>
Constructed == self = __init__("llm_wrapper", <<KnowledgeBase>>)

LlmIdle  == prompts = <<>> /\ limiter = <<>> /\ clock = 0 /\ passed = <<>>
DetIdleAt(name) ==
    /\ entry = name /\ pc = "idle" /\ num_samples = 0 /\ text = <<>>
    /\ mm_methods = <<>> /\ mm_truth = <<>> /\ methods = <<>> /\ mm_results = <<>>
    /\ i = 0 /\ responses = <<>> /\ llm_calls = <<>> /\ ret = <<>>
DetIdle  == DetIdleAt("idle")

InitAgg ==
    /\ results \in SeqsUpTo(AggVerdicts, MaxResults)
    /\ aggregated = <<>>
    /\ FactIdle
    /\ DetIdleAt("aggregate_detection_results")
    /\ ArgIdle
    /\ EvalIdle
    /\ Constructed
    /\ LlmIdle

Aggregate ==
    /\ entry = "aggregate_detection_results"
    /\ aggregated = <<>>
    /\ aggregated' = Some(aggregate_detection_results(results))
    /\ UNCHANGED <<results, factVars, detVars, argVars, evalVars, objVars, llmVars>>

NextAgg == Aggregate

SpecAgg == InitAgg /\ [][NextAgg]_vars

-----------------------------------------------------------------------------
(* detect_factual_error *)

\* Variant of lines 154-156 without .translate(translator): punctuation stays.
normalize_keep_punctuation(txt) == lower(strip(txt))
\* lines 154-156: claim.strip().lower().translate(translator)
normalize(txt) == remove_punctuation(lower(strip(txt)))

\* line 174: len(claim_tokens & truth_tokens) / len(truth_tokens)
token_overlap(claim_tokens, truth_tokens) ==
    R(Cardinality(claim_tokens \cap truth_tokens), Cardinality(truth_tokens))

\* lines 180-182
numerical_match(claim_numbers, truth_numbers) ==
    IF truth_numbers # <<>> THEN claim_numbers = truth_numbers ELSE TRUE

\* Variant of line 190 with overlap > 1.0: a full token overlap alone no
\* longer clears the claim.
factual_is_hallucination_strict(exact_match, overlap, nmatch) ==
    ~(exact_match \/ RLt(RInt(1), overlap) \/ (RLt(R(7, 10), overlap) /\ nmatch))
\* line 190
factual_is_hallucination(exact_match, overlap, nmatch) ==
    ~(exact_match \/ RLe(RInt(1), overlap) \/ (RLt(R(7, 10), overlap) /\ nmatch))

\* Variant of lines 192-199 without the test of line 193.
factual_type_unguarded(is_hallucination, overlap, nmatch) ==
    IF ~nmatch THEN "numerical_error"
    ELSE IF RLt(overlap, R(3, 10)) THEN "fabrication"
    ELSE "factual_error"
\* lines 192-199
factual_type(is_hallucination, overlap, nmatch) ==
    IF ~is_hallucination THEN None
    ELSE IF ~nmatch THEN "numerical_error"
    ELSE IF RLt(overlap, R(3, 10)) THEN "fabrication"
    ELSE "factual_error"

\* line 203
factual_confidence(overlap) == RSub(RInt(1), overlap)

detect_factual_error(claim_arg, truth_arg) ==
    LET claim_norm   == normalize(claim_arg)
        truth_norm   == normalize(truth_arg)
        exact_match  == claim_norm = truth_norm
        claim_tokens == Range(split(claim_norm))
        truth_tokens == Range(split(truth_norm))
    IN  IF truth_tokens = {}
        THEN HallucinationResult(FALSE, RInt(0), None,
                                 [error |-> "Empty ground truth"], "factual_verification")
        ELSE
        LET overlap          == token_overlap(claim_tokens, truth_tokens)
            claim_numbers    == _extract_numbers(claim_norm)
            truth_numbers    == _extract_numbers(truth_norm)
            nmatch           == numerical_match(claim_numbers, truth_numbers)
            is_hallucination == factual_is_hallucination(exact_match, overlap, nmatch)
        IN  HallucinationResult(
                is_hallucination,
                factual_confidence(overlap),
                factual_type(is_hallucination, overlap, nmatch),
                [claim |-> claim_arg, ground_truth |-> truth_arg, token_overlap |-> overlap,
                 exact_match |-> exact_match, numerical_match |-> nmatch,
                 claim_numbers |-> claim_numbers, truth_numbers |-> truth_numbers],
                "factual_verification")

\* Bounds and input domains of the factual verification specification: a text
\* is up to MaxWords words joined by single spaces.
MaxClaimWords == 3
MaxTruthWords == 4
ClaimWords == {<<"A", ".">>, <<"1">>, <<"2">>, <<"0", "2">>}
TruthWords == {<<"a">>, <<"b">>, <<"1">>, <<"2">>}
ClaimTexts == {Join(w) : w \in SeqsUpTo(ClaimWords, MaxClaimWords)}
\* ground truths without a token: whitespace only, punctuation only, both
BlankTruths == {<<" ">>, <<".">>, <<" ", "?", "!", " ">>, <<"\t", "-", "\n">>}
\* the word lists of the ground truths: any list of up to MaxTruthWords - 2
\* words, and the longer lists that repeat no word
TruthWordLists ==
    {w \in SeqsUpTo(TruthWords, MaxTruthWords) :
        Len(w) <= MaxTruthWords - 2 \/ Cardinality(Range(w)) = Len(w)}
TruthTexts == {Join(w) : w \in TruthWordLists} \cup BlankTruths

InitFact ==
    /\ claim \in ClaimTexts
    /\ ground_truth \in TruthTexts
    /\ factual = <<>>
    /\ AggIdle
    /\ DetIdleAt("detect_factual_error")
    /\ ArgIdle
    /\ EvalIdle
    /\ Constructed
    /\ LlmIdle

DetectFactual ==
    /\ entry = "detect_factual_error"
    /\ factual = <<>>
    /\ factual' = Some(detect_factual_error(claim, ground_truth))
    /\ UNCHANGED <<claim, ground_truth, aggVars, detVars, argVars, evalVars, objVars, llmVars>>

NextFact == DetectFactual

SpecFact == InitFact /\ [][NextFact]_vars

-----------------------------------------------------------------------------
(* The text-generation capability: self.llm.generate *)

\* What a generate call can do: return a response with a text, or raise.  The
\* errors are subclasses of Exception: the ValueError of LLMWrapper.generate
\* (provider not initialized) and the error of a provider's client.
Exceptions ==
    {[class |-> "ValueError", message |-> "Provider 'gemini' not initialized"],
     [class |-> "ProviderError", message |-> "provider down"]}

Returned(t) == [ok |-> TRUE, text |-> t]
Raised(x)   == [ok |-> FALSE, error |-> x]

\* Variant handler catching ValueError only; a provider error would propagate.
caught_ValueError_only(x) == x.class = "ValueError"
\* except Exception: the classes the handler catches
except_Exception(x) == x.class \in {"ValueError", "ProviderError"}

-----------------------------------------------------------------------------
(* _calculate_agreement *)

\* lines 126-127: the index pairs of the two loops, in loop order
RECURSIVE PairsFrom(_, _, _)
PairsFrom(a, b, n) ==
    IF a >= n THEN <<>>
    ELSE IF b > n THEN PairsFrom(a + 1, a + 2, n)
    ELSE <<<<a, b>>>> \o PairsFrom(a, b + 1, n)

\* lines 125-131: the similarities list; a pair whose union is empty appends nothing
pair_similarities(token_sets) ==
    LET pairs == SelectSeq(PairsFrom(1, 2, Len(token_sets)),
                           LAMBDA q : Cardinality(token_sets[q[1]] \cup token_sets[q[2]]) > 0)
    IN  [k \in DOMAIN pairs |->
            R(Cardinality(token_sets[pairs[k][1]] \cap token_sets[pairs[k][2]]),
              Cardinality(token_sets[pairs[k][1]] \cup token_sets[pairs[k][2]]))]

\* lines 122-135
token_agreement(rs) ==
    LET token_sets == [k \in DOMAIN rs |-> Range(split(rs[k]))]
    IN  IF Len(token_sets) > 1
        THEN LET similarities == pair_similarities(token_sets)
             IN  IF similarities # <<>> THEN np_mean(similarities) ELSE RInt(0)
        ELSE RInt(1)

\* lines 117-119
exact_agreement(rs) == R(most_common_1(rs)[2], Len(rs))

_calculate_agreement(rs) ==
    IF rs = <<>> THEN RInt(0)
    ELSE RAdd(RMul(R(1, 2), exact_agreement(rs)), RMul(R(1, 2), token_agreement(rs)))

-----------------------------------------------------------------------------
(* detect_self_consistency *)

\* line 92
threshold == R(6, 10)

\* Variant of line 79 with < 1: one response would reach the comparison.
too_few_responses_lt1(rs) == Len(rs) < 1
\* line 79
too_few_responses(rs) == Len(rs) < 2

\* Variant of line 97 that divides by the agreement score.
self_consistency_confidence_by_score(agreement_score) ==
    RDiv(RAbs(RSub(agreement_score, threshold)), agreement_score)
\* line 97: abs(agreement_score - threshold) / threshold
self_consistency_confidence(agreement_score) ==
    RDiv(RAbs(RSub(agreement_score, threshold)), threshold)

\* lines 79-106: the verdict from the collected responses
self_consistency_result(rs) ==
    IF too_few_responses(rs)
    THEN HallucinationResult(TRUE, RInt(1), "generation_failed",
                             [error |-> "Could not generate responses"], "self_consistency")
    ELSE LET agreement_score  == _calculate_agreement(rs)
             is_hallucination == RLt(agreement_score, threshold)
         IN  HallucinationResult(
                 is_hallucination,
                 self_consistency_confidence(agreement_score),
                 IF is_hallucination THEN "inconsistency" ELSE None,
                 [agreement_score |-> agreement_score, num_samples |-> Len(rs),
                  responses |-> rs, most_common |-> most_common_1(rs)],
                 "self_consistency")

-----------------------------------------------------------------------------
(* detect_contradiction *)

NoContradictions ==
    <<"n", "o", " ", "c", "o", "n", "t", "r", "a", "d", "i", "c", "t", "i", "o", "n", "s">>

\* Variant of line 250 without .lower(): the phrase is sought case-sensitively.
has_contradiction_cased(analysis) == ~Contains(analysis, NoContradictions)
\* line 250
has_contradiction(analysis) == ~Contains(lower(analysis), NoContradictions)

\* Variant of lines 262-270 that assumes a hallucination, as the fail-safe of
\* detect_self_consistency does.
contradiction_failed_assume_hallucination(x) ==
    HallucinationResult(TRUE, RInt(1), "generation_failed",
                        [error |-> x.message], "contradiction_detection")
\* lines 262-270: the verdict when the generate call raised
contradiction_failed(x) ==
    HallucinationResult(FALSE, RInt(0), None, [error |-> x.message], "contradiction_detection")

\* lines 241-270: the verdict from the outcome of the generate call
contradiction_result(txt, outcome) ==
    IF outcome.ok
    THEN LET analysis == strip(outcome.text)
             found    == has_contradiction(analysis)
         IN  HallucinationResult(found, R(7, 10),
                                 IF found THEN "logical_inconsistency" ELSE None,
                                 [analysis |-> analysis, original_text |-> txt],
                                 "contradiction_detection")
    ELSE contradiction_failed(outcome.error)

-----------------------------------------------------------------------------
(* detect_temporal_error *)

\* regex \w (ASCII)
IsWordChar(c) == IsDigit(c) \/ IsUpper(c) \/ IsLower(c) \/ c = "_"

\* line 338: \b(1[0-9]{3}|20[0-2][0-9])\b matches the four characters at p
YearMatchAt(s, p) ==
    /\ p + 3 <= Len(s)
    /\ p = 1 \/ ~IsWordChar(s[p - 1])
    /\ \/ s[p] = "1" /\ IsDigit(s[p + 1]) /\ IsDigit(s[p + 2]) /\ IsDigit(s[p + 3])
       \/ s[p] = "2" /\ s[p + 1] = "0" /\ s[p + 2] \in {"0", "1", "2"} /\ IsDigit(s[p + 3])
    /\ p + 4 > Len(s) \/ ~IsWordChar(s[p + 4])

\* lines 338-339: re.findall, then int()
RECURSIVE FindYears(_, _)
FindYears(s, p) ==
    IF p > Len(s) THEN <<>>
    ELSE IF YearMatchAt(s, p)
         THEN <<DigitsValue(SubSeq(s, p, p + 3))>> \o FindYears(s, p + 4)
         ELSE FindYears(s, p + 1)

\* line 354
current_year == 2025

\* line 361
context_tolerance == 10

\* lines 337-377; context_arg is the context_year argument: <<>> for None,
\* <<year>> otherwise
detect_temporal_error(txt, context_arg) ==
    LET years == FindYears(txt, 1)
    IN  IF years = <<>>
        THEN HallucinationResult(FALSE, RInt(0), None,
                                 [note |-> "No temporal references found"],
                                 "temporal_verification")
        ELSE
        LET is_sorted        == \A k \in 1..(Len(years) - 1) : years[k] <= years[k + 1]
            future_years     == SelectSeq(years, LAMBDA y : y > current_year)
            context_mismatch ==
                IF context_arg # <<>> /\ context_arg[1] # 0
                THEN \A k \in DOMAIN years : Abs(years[k] - context_arg[1]) > context_tolerance
                ELSE FALSE
            is_hallucination == Len(future_years) > 0 \/ context_mismatch
        IN  HallucinationResult(
                is_hallucination,
                IF is_hallucination THEN R(9, 10) ELSE R(7, 10),
                IF is_hallucination THEN "temporal_error" ELSE None,
                [years_found |-> years, chronologically_ordered |-> is_sorted,
                 future_years |-> future_years, context_year |-> context_arg,
                 context_mismatch |-> context_mismatch],
                "temporal_verification")

-----------------------------------------------------------------------------
(* The calls of detect_self_consistency and detect_contradiction, step by step:
   one step per generate call, which returns or raises as the provider decides *)

\* Bounds and input domains
MaxSamples == 4
SampleTexts == {<<>>, <<"a">>, <<" ", "A">>, <<"a", " ", "b">>}
AnalysisTexts ==
    {<<"N", "o", " ", "c", "o", "n", "t", "r", "a", "d", "i", "c", "t", "i", "o", "n", "s",
       " ", "f", "o", "u", "n", "d", ".">>,
     <<" ", "N", "O", " ", "C", "O", "N", "T", "R", "A", "D", "I", "C", "T", "I", "O", "N", "S">>,
     <<"p", "i", "a", "n", "o", " ", "c", "o", "n", "t", "r", "a", "d", "i", "c", "t", "i", "o",
       "n", "s">>,
     <<"n", "o", " ", " ", "c", "o", "n", "t", "r", "a", "d", "i", "c", "t", "i", "o", "n", "s">>,
     <<"A", " ", "c", "o", "n", "t", "r", "a", "d", "i", "c", "t", "s", " ", "B">>,
     <<>>}
CheckedTexts == {<<"a">>, <<"I", "n", " ", "2", "0", "2", "7">>, <<"I", "n", " ", "1", "9", "9", "9">>}

MultiSampleOutcomes ==
    {Returned(<<"a">>), Returned(<<"b">>), Raised(CHOOSE x \in Exceptions : x.class = "ProviderError")}
SampleOutcomes   == {Returned(t) : t \in SampleTexts} \cup {Raised(x) : x \in Exceptions}
AnalysisOutcomes == {Returned(t) : t \in AnalysisTexts} \cup {Raised(x) : x \in Exceptions}

\* return <result> of a detection method: to the caller, or into the results
\* dict of multi_method_detection (lines 406 and 412), which goes on at `next`.
ReturnResult(name, r, next) ==
    IF entry = "multi_method_detection"
    THEN /\ mm_results' = Append(mm_results, <<name, r>>)
         /\ pc' = next
         /\ ret' = ret
    ELSE /\ ret' = Some(r)
         /\ pc' = "returned"
         /\ mm_results' = mm_results

\* Variant of line 67 that repeats the pass of a failed generate call.
next_sample_after_success(p, outcome) == IF outcome.ok THEN p + 1 ELSE p
\* line 67: for i in range(num_samples) goes on to the next sample whatever
\* the outcome of the generate call
next_sample(p, outcome) == p + 1

\* lines 68-77: one pass of the sampling loop
SC_Generate ==
    /\ pc = "sc_loop"
    /\ i < num_samples
    /\ \E outcome \in (IF entry = "multi_method_detection" THEN MultiSampleOutcomes
                                                               ELSE SampleOutcomes) :
        /\ llm_calls' = Append(llm_calls, outcome)
        /\ IF outcome.ok
           THEN /\ responses' = Append(responses, lower(strip(outcome.text)))
                /\ i' = next_sample(i, outcome)
                /\ pc' = pc
           ELSE IF except_Exception(outcome.error)
           THEN /\ responses' = responses
                /\ i' = next_sample(i, outcome)
                /\ pc' = pc
           ELSE /\ pc' = "raised"
                /\ UNCHANGED <<responses, i>>
    /\ UNCHANGED <<entry, num_samples, text, mm_methods, mm_truth, methods, mm_results, ret>>
    /\ UNCHANGED <<aggVars, factVars, argVars, evalVars, objVars, llmVars>>

\* lines 79-106: after the loop
SC_Return ==
    /\ pc = "sc_loop"
    /\ i >= num_samples
    /\ ReturnResult("self_consistency", self_consistency_result(responses), "mm_factual")
    /\ UNCHANGED <<entry, num_samples, text, mm_methods, mm_truth, methods, i, responses, llm_calls>>
    /\ UNCHANGED <<aggVars, factVars, argVars, evalVars, objVars, llmVars>>

\* lines 233-270: detect_contradiction
Contradiction ==
    /\ pc = "contradiction_call"
    /\ \E outcome \in AnalysisOutcomes :
        /\ llm_calls' = Append(llm_calls, outcome)
        /\ IF outcome.ok \/ except_Exception(outcome.error)
           THEN ReturnResult("contradiction", contradiction_result(text, outcome), "mm_temporal")
           ELSE /\ pc' = "raised"
                /\ UNCHANGED <<mm_results, ret>>
    /\ UNCHANGED <<entry, num_samples, text, mm_methods, mm_truth, methods, i, responses>>
    /\ UNCHANGED <<aggVars, factVars, argVars, evalVars, objVars, llmVars>>

InitDet ==
    /\ \/ /\ entry = "detect_self_consistency"
          /\ pc = "sc_loop"
          /\ num_samples \in 0..MaxSamples
          /\ text = <<>>
       \/ /\ entry = "detect_contradiction"
          /\ pc = "contradiction_call"
          /\ num_samples = 0
          /\ text \in CheckedTexts
    /\ mm_methods = <<>> /\ mm_truth = <<>> /\ methods = <<>> /\ mm_results = <<>>
    /\ i = 0 /\ responses = <<>> /\ llm_calls = <<>> /\ ret = <<>>
    /\ AggIdle
    /\ FactIdle
    /\ ArgIdle
    /\ EvalIdle
    /\ Constructed
    /\ LlmIdle

NextDet == SC_Generate \/ SC_Return \/ Contradiction

SpecDet == InitDet /\ [][NextDet]_vars

-----------------------------------------------------------------------------
(* detect_temporal_error called by itself *)

\* Bounds and input domains: a text is up to MaxTemporalWords words joined by
\* single spaces; the context year is None or an int.
MaxTemporalWords == 3
TemporalWords ==
    {<<"I", "n">>, <<"2", "0", "9", "9">>, <<"2", "0", "2", "7">>,
     <<"1", "9", "9", "9">>, <<"2", "0", "1", "0">>, <<"x", "2", "0", "2", "0">>}
TemporalTexts == {Join(w) : w \in SeqsUpTo(TemporalWords, MaxTemporalWords)}
ContextYears == {<<>>, <<0>>, <<2000>>, <<2015>>, <<2040>>}

InitTemp ==
    /\ entry = "detect_temporal_error"
    /\ pc = "temporal_call"
    /\ text \in TemporalTexts
    /\ context_year \in ContextYears
    /\ expected_entities = <<>>
    /\ num_samples = 0
    /\ mm_methods = <<>> /\ mm_truth = <<>> /\ methods = <<>> /\ mm_results = <<>>
    /\ i = 0 /\ responses = <<>> /\ llm_calls = <<>> /\ ret = <<>>
    /\ AggIdle
    /\ FactIdle
    /\ EvalIdle
    /\ Constructed
    /\ LlmIdle

\* lines 337-377: the whole call
Temporal ==
    /\ entry = "detect_temporal_error"
    /\ pc = "temporal_call"
    /\ ret' = Some(detect_temporal_error(text, context_year))
    /\ pc' = "returned"
    /\ UNCHANGED <<entry, num_samples, text, mm_methods, mm_truth, methods, mm_results, i,
                   responses, llm_calls>>
    /\ UNCHANGED <<aggVars, factVars, argVars, evalVars, objVars, llmVars>>

NextTemp == Temporal

SpecTemp == InitTemp /\ [][NextTemp]_vars

-----------------------------------------------------------------------------
(* detect_entity_hallucination *)

\* [a-z]+ from p: the index of the last character of the run of lowercase
\* letters that starts at p (p - 1 when there is none)
RECURSIVE LowerRunEnd(_, _)
LowerRunEnd(s, p) ==
    IF p <= Len(s) /\ IsLower(s[p]) THEN LowerRunEnd(s, p + 1) ELSE p - 1

\* [A-Z][a-z]+ at p: the index of its last character, 0 when it does not match
CapitalizedWordEnd(s, p) ==
    IF p + 1 <= Len(s) /\ IsUpper(s[p]) /\ IsLower(s[p + 1])
    THEN LowerRunEnd(s, p + 1)
    ELSE 0

\* \s+ from p: the index of the first character that is not whitespace
RECURSIVE SkipWhitespace(_, _)
SkipWhitespace(s, p) ==
    IF p <= Len(s) /\ s[p] \in Whitespace THEN SkipWhitespace(s, p + 1) ELSE p

\* the closing \b after a word ending at e
WordBoundaryAfter(s, e) == e = Len(s) \/ ~IsWordChar(s[e + 1])

\* (?:\s+[A-Z][a-z]+)*\b after a word ending at e: the greedy repetition takes
\* every further capitalized word and gives the last ones back until \b holds;
\* the index of the last character of the match, 0 when there is none
RECURSIVE SpanEndFrom(_, _)
SpanEndFrom(s, e) ==
    LET q    == SkipWhitespace(s, e + 1)
        e2   == IF q > e + 1 THEN CapitalizedWordEnd(s, q) ELSE 0
        more == IF e2 # 0 THEN SpanEndFrom(s, e2) ELSE 0
    IN  IF more # 0 THEN more
        ELSE IF WordBoundaryAfter(s, e) THEN e
        ELSE 0

\* line 297: \b[A-Z][a-z]+(?:\s+[A-Z][a-z]+)*\b matched at p
SpanEndAt(s, p) ==
    IF (p = 1 \/ ~IsWordChar(s[p - 1])) /\ CapitalizedWordEnd(s, p) # 0
    THEN SpanEndFrom(s, CapitalizedWordEnd(s, p))
    ELSE 0

\* line 297: re.findall, the matches from left to right without overlap
RECURSIVE FindCapitalizedSpans(_, _)
FindCapitalizedSpans(s, p) ==
    IF p > Len(s) THEN <<>>
    ELSE LET e == SpanEndAt(s, p)
         IN  IF e # 0
             THEN <<SubSeq(s, p, e)>> \o FindCapitalizedSpans(s, e + 1)
             ELSE FindCapitalizedSpans(s, p + 1)

\* Variant of line 309 without "and len(found_entities) == 0": one missing
\* entity is enough.
entity_is_hallucination_any_missing(has_unexpected, missing_expected, found_count) ==
    has_unexpected \/ missing_expected
\* line 309
entity_is_hallucination(has_unexpected, missing_expected, found_count) ==
    has_unexpected \/ (missing_expected /\ found_count = 0)

\* unexpected_entities[:5]
FirstFive(s) == SubSeq(s, 1, IF Len(s) < 5 THEN Len(s) ELSE 5)

\* lines 284-323
detect_entity_hallucination(txt, expected) ==
    LET text_lower         == lower(txt)
        found_entities     == SelectSeq(expected, LAMBDA x : Contains(text_lower, lower(x)))
        missing_entities   == SelectSeq(expected, LAMBDA x : ~Contains(text_lower, lower(x)))
        potential_entities == FindCapitalizedSpans(txt, 1)
        unexpected_entities ==
            SelectSeq(potential_entities, LAMBDA x : ~In(x, expected))
        has_unexpected     == Len(unexpected_entities) > 0
        missing_expected   == Len(missing_entities) > 0
        is_hallucination   ==
            entity_is_hallucination(has_unexpected, missing_expected, Len(found_entities))
    IN  HallucinationResult(
            is_hallucination,
            IF is_hallucination THEN R(8, 10) ELSE R(9, 10),
            IF is_hallucination THEN "entity_error" ELSE None,
            [found_entities |-> found_entities, missing_entities |-> missing_entities,
             unexpected_entities |-> FirstFive(unexpected_entities),
             expected_count |-> Len(expected), found_count |-> Len(found_entities)],
            "entity_verification")

\* Bounds and input domains: a text is up to MaxEntityWords words joined by
\* single spaces, the expected list holds up to MaxExpected names.
MaxEntityWords == 3
MaxExpected == 2
EntityWords == {<<"A", "l">>, <<"B", "o">>, <<"a", "l">>, <<"B", "o", "X">>, <<"\t">>}
EntityTexts == {Join(w) : w \in SeqsUpTo(EntityWords, MaxEntityWords)}
ExpectedNames == {<<"A", "l">>, <<"B", "o">>, <<"A", "l", " ", "B", "o">>, <<"a", "l">>}

InitEntity ==
    /\ entry = "detect_entity_hallucination"
    /\ pc = "entity_call"
    /\ text \in EntityTexts
    /\ expected_entities \in SeqsUpTo(ExpectedNames, MaxExpected)
    /\ context_year = <<>>
    /\ num_samples = 0
    /\ mm_methods = <<>> /\ mm_truth = <<>> /\ methods = <<>> /\ mm_results = <<>>
    /\ i = 0 /\ responses = <<>> /\ llm_calls = <<>> /\ ret = <<>>
    /\ AggIdle
    /\ FactIdle
    /\ EvalIdle
    /\ Constructed
    /\ LlmIdle

\* lines 284-323: the whole call
Entity ==
    /\ entry = "detect_entity_hallucination"
    /\ pc = "entity_call"
    /\ ret' = Some(detect_entity_hallucination(text, expected_entities))
    /\ pc' = "returned"
    /\ UNCHANGED <<entry, num_samples, text, mm_methods, mm_truth, methods, mm_results, i,
                   responses, llm_calls>>
    /\ UNCHANGED <<aggVars, factVars, argVars, evalVars, objVars, llmVars>>

NextEntity == Entity

SpecEntity == InitEntity /\ [][NextEntity]_vars

-----------------------------------------------------------------------------
(* multi_method_detection, step by step *)

\* line 53: the default of num_samples, which line 406 leaves in force
default_num_samples == 5

\* Python truthiness of an Optional[str] argument: None and "" are false
TruthyText(o) == o # <<>> /\ o[1] # <<>>

\* Variant of lines 398-401 without lines 400-401: factual is never a default.
default_methods_without_factual(truth) ==
    <<"self_consistency", "contradiction", "temporal">>
\* lines 398-401
default_methods(truth) ==
    <<"self_consistency", "contradiction", "temporal">>
        \o (IF TruthyText(truth) THEN <<"factual">> ELSE <<>>)

\* Input domains
MethodNames == <<"self_consistency", "factual", "contradiction", "temporal">>
\* the names a caller may pass: the four dispatched ones and one that is not
RequestedNames == MethodNames \o <<"entity">>
MethodLists ==
    {SelectSeq(RequestedNames, LAMBDA m : m \in S) : S \in SUBSET Range(RequestedNames)}
TruthArgs == {<<>>, <<<<>>>>, <<<<"a">>>>}

\* Variant of lines 398-401 in which line 401 appends to the list the caller
\* passed as well.
passed_list_appended(methods_arg, truth_arg) ==
    IF methods_arg # <<>> /\ TruthyText(truth_arg)
    THEN <<Append(methods_arg[1], "factual")>>
    ELSE methods_arg
\* lines 398-401: what the list the caller passed as methods holds afterwards;
\* line 401 appends to the list created at line 399 only
passed_list_after_defaults(methods_arg, truth_arg) == methods_arg

\* lines 398-403
MM_Begin ==
    /\ pc = "mm_begin"
    /\ methods' = IF mm_methods = <<>> THEN default_methods(mm_truth) ELSE mm_methods[1]
    /\ mm_results' = <<>>
    /\ mm_methods' = passed_list_after_defaults(mm_methods, mm_truth)
    /\ pc' = "mm_self_consistency"
    /\ UNCHANGED <<entry, num_samples, text, mm_truth, i, responses, llm_calls, ret>>
    /\ UNCHANGED <<aggVars, factVars, argVars, evalVars, objVars, llmVars>>

\* lines 405-406: the call of detect_self_consistency(prompt)
MM_SelfConsistency ==
    /\ pc = "mm_self_consistency"
    /\ IF In("self_consistency", methods)
       THEN /\ pc' = "sc_loop"
            /\ num_samples' = default_num_samples
            /\ i' = 0
            /\ responses' = <<>>
       ELSE /\ pc' = "mm_factual"
            /\ UNCHANGED <<num_samples, i, responses>>
    /\ UNCHANGED <<entry, text, mm_methods, mm_truth, methods, mm_results, llm_calls, ret>>
    /\ UNCHANGED <<aggVars, factVars, argVars, evalVars, objVars, llmVars>>

\* lines 408-409
MM_Factual ==
    /\ pc = "mm_factual"
    /\ mm_results' =
          IF In("factual", methods) /\ TruthyText(mm_truth)
          THEN Append(mm_results, <<"factual", detect_factual_error(text, mm_truth[1])>>)
          ELSE mm_results
    /\ pc' = "mm_contradiction"
    /\ UNCHANGED <<entry, num_samples, text, mm_methods, mm_truth, methods, i, responses,
                   llm_calls, ret>>
    /\ UNCHANGED <<aggVars, factVars, argVars, evalVars, objVars, llmVars>>

\* lines 411-412: the call of detect_contradiction(response_text)
MM_Contradiction ==
    /\ pc = "mm_contradiction"
    /\ pc' = IF In("contradiction", methods) THEN "contradiction_call" ELSE "mm_temporal"
    /\ UNCHANGED <<entry, num_samples, text, mm_methods, mm_truth, methods, mm_results, i,
                   responses, llm_calls, ret>>
    /\ UNCHANGED <<aggVars, factVars, argVars, evalVars, objVars, llmVars>>

\* lines 414-417
MM_Temporal ==
    /\ pc = "mm_temporal"
    /\ mm_results' =
          IF In("temporal", methods)
          THEN Append(mm_results, <<"temporal", detect_temporal_error(text, <<>>)>>)
          ELSE mm_results
    /\ ret' = Some(mm_results')
    /\ pc' = "returned"
    /\ UNCHANGED <<entry, num_samples, text, mm_methods, mm_truth, methods, i, responses,
                   llm_calls>>
    /\ UNCHANGED <<aggVars, factVars, argVars, evalVars, objVars, llmVars>>

InitMulti ==
    \/ InitDet
    \/ /\ entry = "multi_method_detection"
       /\ pc = "mm_begin"
       /\ text \in CheckedTexts
       /\ mm_methods \in {<<>>} \cup {<<l>> : l \in MethodLists}
       /\ mm_truth \in TruthArgs
       /\ num_samples = 0 /\ methods = <<>> /\ mm_results = <<>>
       /\ i = 0 /\ responses = <<>> /\ llm_calls = <<>> /\ ret = <<>>
       /\ AggIdle
       /\ FactIdle
       /\ ArgIdle
       /\ EvalIdle
       /\ Constructed
       /\ LlmIdle

NextMulti ==
    \/ MM_Begin \/ MM_SelfConsistency \/ MM_Factual \/ MM_Contradiction \/ MM_Temporal
    \/ SC_Generate \/ SC_Return \/ Contradiction

SpecMulti == InitMulti /\ [][NextMulti]_vars

-----------------------------------------------------------------------------
(* Every method of one detector: the five detection methods called by       *)
(* themselves, multi_method_detection, and aggregate_detection_results      *)
(* called by itself or with the dict that multi_method_detection returned   *)

\* Bound and input domains of the direct calls of detect_factual_error
MaxDirectWords == 2
DirectClaimTexts == {Join(w) : w \in SeqsUpTo(ClaimWords, MaxDirectWords)}
DirectTruthTexts == {Join(w) : w \in SeqsUpTo(TruthWords, MaxDirectWords)} \cup BlankTruths

\* list(d.values()) of a dict
DictValues(d) == [k \in DOMAIN d |-> d[k][2]]

InitDetector ==
    \/ InitMulti
    \/ InitEntity
    \/ InitTemp
    \/ InitAgg
    \/ /\ claim \in DirectClaimTexts
       /\ ground_truth \in DirectTruthTexts
       /\ factual = <<>>
       /\ AggIdle
       /\ DetIdleAt("detect_factual_error")
       /\ ArgIdle
       /\ EvalIdle
       /\ Constructed
       /\ LlmIdle

\* lines 419-447, called with the value multi_method_detection returned
AggregateDetected ==
    /\ entry = "multi_method_detection"
    /\ pc = "returned"
    /\ aggregated = <<>>
    /\ aggregated' = Some(aggregate_detection_results(DictValues(Get(ret))))
    /\ UNCHANGED <<results, factVars, detVars, argVars, evalVars, objVars, llmVars>>

NextDetector ==
    \/ NextMulti
    \/ AggregateDetected
    \/ Entity
    \/ Temporal
    \/ Aggregate
    \/ DetectFactual

SpecDetector == InitDetector /\ [][NextDetector]_vars

-----------------------------------------------------------------------------
(* src/src/evaluation/metrics.py: EvaluationMetrics, the confusion metrics *)

\* the outcome of a call: the returned value or the exception raised
MetricValue(v) == [kind |-> "returned", value |-> v]
MetricError(class, message) ==
    [kind |-> "raised", error |-> [class |-> class, message |-> message]]

\* Variant of lines 21, 36, 83, 264 that tests one direction only.
length_mismatch_longer(a, b) == Len(a) > Len(b)
\* lines 21, 36, 83, 264: len(a) != len(b)
length_mismatch(a, b) == Len(a) # Len(b)

\* sum(... for p, g in zip(predictions, ground_truth)) over the pairs <<p, g>>
\* that are in S
CountPairs(predictions, truth_arg, S) ==
    Cardinality({k \in DOMAIN predictions : <<predictions[k], truth_arg[k]>> \in S})

\* lines 19-25
accuracy(predictions, truth_arg) ==
    IF length_mismatch(predictions, truth_arg)
    THEN MetricError("ValueError", "Predictions and ground truth must have same length")
    ELSE MetricValue(
            IF predictions # <<>>
            THEN R(CountPairs(predictions, truth_arg, {<<TRUE, TRUE>>, <<FALSE, FALSE>>}),
                   Len(predictions))
            ELSE RInt(0))

\* Variant of lines 44-45 that returns 1.0 for an empty denominator.
ratio_or_one(num, den) == IF den > 0 THEN R(num, den) ELSE RInt(1)
\* lines 44-45: num / den if den > 0 else 0.0
ratio_or_zero(num, den) == IF den > 0 THEN R(num, den) ELSE RInt(0)

\* lines 39-56, for lists of equal length
confusion_metrics(predictions, truth_arg) ==
    LET tp == CountPairs(predictions, truth_arg, {<<TRUE, TRUE>>})
        fp == CountPairs(predictions, truth_arg, {<<TRUE, FALSE>>})
        fn == CountPairs(predictions, truth_arg, {<<FALSE, TRUE>>})
        tn == CountPairs(predictions, truth_arg, {<<FALSE, FALSE>>})
        precision == ratio_or_zero(tp, tp + fp)
        recall    == ratio_or_zero(tp, tp + fn)
        f1 == IF RLt(RInt(0), RAdd(precision, recall))
              THEN RDiv(RMul(RInt(2), RMul(precision, recall)), RAdd(precision, recall))
              ELSE RInt(0)
    IN  [precision |-> precision, recall |-> recall, f1 |-> f1,
         tp |-> tp, fp |-> fp, fn |-> fn, tn |-> tn]

\* lines 28-56
precision_recall_f1(predictions, truth_arg) ==
    IF length_mismatch(predictions, truth_arg)
    THEN MetricError("ValueError", "Predictions and ground truth must have same length")
    ELSE MetricValue(confusion_metrics(predictions, truth_arg))

\* the elements of s at the positions where the list of keys holds key
Where(s, keys, key) ==
    LET idx == SelectSeq([k \in DOMAIN s |-> k], LAMBDA k : keys[k] = key)
    IN  [j \in DOMAIN idx |-> s[idx[j]]]

\* the distinct elements of s in the order of their first occurrence (dict keys)
FirstOccurrences(s) ==
    LET idx == SelectSeq([k \in DOMAIN s |-> k], LAMBDA k : FirstIndex(s, s[k]) = k)
    IN  [j \in DOMAIN idx |-> s[idx[j]]]

\* lines 131-169: the result is the dict as <<type, metrics>> pairs in insertion order
error_analysis_by_type(predictions, truth_arg, hallucination_types) ==
    IF ~(Len(predictions) = Len(truth_arg) /\ Len(truth_arg) = Len(hallucination_types))
    THEN MetricError("ValueError", "All inputs must have same length")
    ELSE LET keys == FirstOccurrences(hallucination_types)
             metrics(h) ==
                 LET preds == Where(predictions, hallucination_types, h)
                     truth == Where(truth_arg, hallucination_types, h)
                 IN  confusion_metrics(preds, truth)
                         @@ [accuracy |-> accuracy(preds, truth).value,
                             count    |-> Len(preds)]
         IN  MetricValue([j \in DOMAIN keys |-> <<keys[j], metrics(keys[j])>>])

\* sum(bools)
CountTrue(s) == Cardinality({k \in DOMAIN s : s[k]})

\* lines 250-294
mitigation_effectiveness(baseline_hallucinations, mitigated_hallucinations) ==
    IF length_mismatch(baseline_hallucinations, mitigated_hallucinations)
    THEN MetricError("ValueError", "Inputs must have same length")
    ELSE IF Len(baseline_hallucinations) = 0
    THEN MetricError("ZeroDivisionError", "division by zero")
    ELSE
    LET n == Len(baseline_hallucinations)
        baseline_rate  == R(CountTrue(baseline_hallucinations), n)
        mitigated_rate == R(CountTrue(mitigated_hallucinations), n)
        absolute_reduction == RSub(baseline_rate, mitigated_rate)
        relative_reduction ==
            IF RLt(RInt(0), baseline_rate)
            THEN RMul(RDiv(absolute_reduction, baseline_rate), RInt(100))
            ELSE RInt(0)
        improvements ==
            CountPairs(baseline_hallucinations, mitigated_hallucinations, {<<TRUE, FALSE>>})
        degradations ==
            CountPairs(baseline_hallucinations, mitigated_hallucinations, {<<FALSE, TRUE>>})
    IN  MetricValue(
            [baseline_hallucination_rate |-> baseline_rate,
             mitigated_hallucination_rate |-> mitigated_rate,
             absolute_reduction |-> absolute_reduction,
             relative_reduction_percent |-> relative_reduction,
             improvements |-> improvements,
             degradations |-> degradations,
             unchanged |-> n - improvements - degradations,
             net_improvement |-> improvements - degradations])

-----------------------------------------------------------------------------
(* EvaluationMetrics.confidence_calibration *)

\* line 90: np.linspace(0, 1, num_bins + 1)[k]
linspace(k, num_bins) == R(k, num_bins)

\* Variant of line 91 with right=True: an edge belongs to the bin below it.
digitize_right(c, num_bins) ==
    Cardinality({k \in 0..(num_bins - 1) : RLt(linspace(k, num_bins), c)})
\* line 91: np.digitize(c, bins[:-1]), the number of edges bins[0..num_bins-1]
\* that are <= c
digitize(c, num_bins) ==
    Cardinality({k \in 0..(num_bins - 1) : RLe(linspace(k, num_bins), c)})

\* line 92: np.clip
clip(v, lo, hi) == IF v < lo THEN lo ELSE IF v > hi THEN hi ELSE v

\* lines 91-92
bin_index(c, num_bins) == clip(digitize(c, num_bins) - 1, 0, num_bins - 1)

\* Variant of line 112 without the weight count / total_samples.
ece_contribution_unweighted(count, total_samples, avg_confidence, bin_accuracy) ==
    RAbs(RSub(avg_confidence, bin_accuracy))
\* Variant of line 112 without abs(): the signed gap.
ece_contribution_signed(count, total_samples, avg_confidence, bin_accuracy) ==
    RMul(R(count, total_samples), RSub(avg_confidence, bin_accuracy))
\* line 112
ece_contribution(count, total_samples, avg_confidence, bin_accuracy) ==
    RMul(R(count, total_samples), RAbs(RSub(avg_confidence, bin_accuracy)))

\* lines 100-122: the entry of bin b, for a bin that holds a sample
calibration_bin(confidences, correct, num_bins, b) ==
    LET idx == SelectSeq([k \in DOMAIN confidences |-> k],
                         LAMBDA k : bin_index(confidences[k], num_bins) = b)
        bin_confidences == [j \in DOMAIN idx |-> confidences[idx[j]]]
        bin_correct     == [j \in DOMAIN idx |-> IF correct[idx[j]] THEN RInt(1) ELSE RInt(0)]
        avg_confidence  == np_mean(bin_confidences)
        bin_accuracy    == np_mean(bin_correct)
    IN  [bin |-> b,
         range |-> <<linspace(b, num_bins), linspace(b + 1, num_bins)>>,
         avg_confidence |-> avg_confidence,
         accuracy |-> bin_accuracy,
         count |-> Len(idx),
         gap |-> RAbs(RSub(avg_confidence, bin_accuracy))]

\* lines 66-128
confidence_calibration(confidences, correct, num_bins) ==
    IF length_mismatch(confidences, correct)
    THEN MetricError("ValueError", "Confidences and correct must have same length")
    ELSE IF confidences = <<>>
    THEN MetricValue([ece |-> RInt(0), bins |-> <<>>])
    ELSE
    LET occupied == SelectSeq([k \in 1..num_bins |-> k - 1],
                              LAMBDA b : \E k \in DOMAIN confidences :
                                             bin_index(confidences[k], num_bins) = b)
        bin_data == [j \in DOMAIN occupied |->
                        calibration_bin(confidences, correct, num_bins, occupied[j])]
        total_ece == RSum([j \in DOMAIN bin_data |->
                             ece_contribution(bin_data[j].count, Len(confidences),
                                              bin_data[j].avg_confidence,
                                              bin_data[j].accuracy)])
    IN  MetricValue([ece |-> total_ece, bins |-> bin_data, num_bins |-> num_bins])

-----------------------------------------------------------------------------
(* The calls of the EvaluationMetrics methods *)

\* Bounds and input domains: lists of up to MaxLen elements
MaxLen == 3
BoolLists == SeqsUpTo(BOOLEAN, MaxLen)
TypeLists == SeqsUpTo({"factual_error", "fabrication"}, MaxLen)
ConfidenceValues == {R(1, 4), R(3, 10), R(9, 10), R(1, 1), R(-1, 10)}
ConfidenceLists == SeqsUpTo(ConfidenceValues, MaxLen)
BinCounts == {4, 10}

InitEval ==
    /\ \/ /\ metric \in {"accuracy", "precision_recall_f1"}
          /\ args \in [predictions : BoolLists, ground_truth : BoolLists]
       \/ /\ metric = "confidence_calibration"
          /\ args \in [confidences : ConfidenceLists, correct : BoolLists, num_bins : BinCounts]
       \/ /\ metric = "error_analysis_by_type"
          /\ args \in [predictions : BoolLists, ground_truth : BoolLists,
                       hallucination_types : TypeLists]
       \/ /\ metric = "mitigation_effectiveness"
          /\ args \in [baseline_hallucinations : BoolLists, mitigated_hallucinations : BoolLists]
    /\ metric_ret = <<>>
    /\ AggIdle
    /\ FactIdle
    /\ DetIdle
    /\ ArgIdle
    /\ Constructed
    /\ LlmIdle

Accuracy ==
    /\ metric = "accuracy" /\ metric_ret = <<>>
    /\ metric_ret' = Some(accuracy(args.predictions, args.ground_truth))
    /\ UNCHANGED <<metric, args, aggVars, factVars, detVars, argVars, objVars, llmVars>>

PrecisionRecallF1 ==
    /\ metric = "precision_recall_f1" /\ metric_ret = <<>>
    /\ metric_ret' = Some(precision_recall_f1(args.predictions, args.ground_truth))
    /\ UNCHANGED <<metric, args, aggVars, factVars, detVars, argVars, objVars, llmVars>>

ConfidenceCalibration ==
    /\ metric = "confidence_calibration" /\ metric_ret = <<>>
    /\ metric_ret' = Some(confidence_calibration(args.confidences, args.correct, args.num_bins))
    /\ UNCHANGED <<metric, args, aggVars, factVars, detVars, argVars, objVars, llmVars>>

ErrorAnalysisByType ==
    /\ metric = "error_analysis_by_type" /\ metric_ret = <<>>
    /\ metric_ret' = Some(error_analysis_by_type(args.predictions, args.ground_truth,
                                                 args.hallucination_types))
    /\ UNCHANGED <<metric, args, aggVars, factVars, detVars, argVars, objVars, llmVars>>

MitigationEffectiveness ==
    /\ metric = "mitigation_effectiveness" /\ metric_ret = <<>>
    /\ metric_ret' = Some(mitigation_effectiveness(args.baseline_hallucinations,
                                                   args.mitigated_hallucinations))
    /\ UNCHANGED <<metric, args, aggVars, factVars, detVars, argVars, objVars, llmVars>>

NextEval ==
    \/ Accuracy \/ PrecisionRecallF1 \/ ConfidenceCalibration
    \/ ErrorAnalysisByType \/ MitigationEffectiveness

SpecEval == InitEval /\ [][NextEval]_vars

-----------------------------------------------------------------------------
(* EvaluationMetrics.compare_methods and EvaluationMetrics.model_comparison *)
(* A dict is the sequence of its <<key, value>> items in insertion order.   *)

\* metrics.py lines 59-63
hallucination_rate(predictions) ==
    IF predictions = <<>> THEN RInt(0) ELSE R(CountTrue(predictions), Len(predictions))

\* lines 190-194: the metrics of one method whose list is as long as the truth
method_metrics(predictions, truth_arg) ==
    confusion_metrics(predictions, truth_arg)
        @@ [accuracy |-> accuracy(predictions, truth_arg).value,
            hallucination_rate |-> hallucination_rate(predictions)]

\* lines 186-188 and 217-219: the items the loop does not skip
items_of_matching_length(items, truth_arg) ==
    SelectSeq(items, LAMBDA item : ~length_mismatch(item[2], truth_arg))

\* lines 172-199
compare_methods(method_results, truth_arg) ==
    LET kept == items_of_matching_length(method_results, truth_arg)
    IN  MetricValue([k \in 1..Len(kept) |->
                        <<kept[k][1], method_metrics(kept[k][2], truth_arg)>>])

\* lines 223-226: r.strip().lower() == g.strip().lower(), pairwise
exact_matches(model_texts, ground_truths) ==
    [k \in 1..Len(model_texts) |-> lower(strip(model_texts[k])) = lower(strip(ground_truths[k]))]

\* lines 230-237: the share of the truth's tokens that the response holds
response_overlap(response, truth) ==
    LET r_tokens == Range(split(lower(response)))
        g_tokens == Range(split(lower(truth)))
    IN  IF g_tokens # {}
        THEN R(Cardinality(r_tokens \cap g_tokens), Cardinality(g_tokens))
        ELSE RInt(0)

\* lines 239-244, for a non-empty list of responses
model_metrics(model_texts, ground_truths) ==
    LET matches == exact_matches(model_texts, ground_truths)
        rate    == R(CountTrue(matches), Len(matches))
    IN  [exact_match_rate |-> rate,
         avg_token_overlap |->
            np_mean([k \in 1..Len(model_texts) |->
                        response_overlap(model_texts[k], ground_truths[k])]),
         hallucination_rate |-> RSub(RInt(1), rate),
         num_samples |-> Len(model_texts)]

\* lines 202-247; line 240 divides by len(exact_matches), which is 0 for a model
\* with no responses when there are no ground truths either
model_comparison(model_responses, ground_truths) ==
    LET kept == items_of_matching_length(model_responses, ground_truths)
    IN  IF kept # <<>> /\ ground_truths = <<>>
        THEN MetricError("ZeroDivisionError", "division by zero")
        ELSE MetricValue([k \in 1..Len(kept) |->
                            <<kept[k][1], model_metrics(kept[k][2], ground_truths)>>])

-----------------------------------------------------------------------------
(* The calls of compare_methods and model_comparison *)

\* Bounds and input domains: up to MaxCompared methods or models, each with a
\* list of up to MaxCompareLen elements
MaxCompared == 2
MaxCompareLen == 2
ComparedNames == <<"m1", "m2", "m3">>
DictsOver(lists) ==
    UNION {{[k \in 1..n |-> <<ComparedNames[k], f[k]>>] : f \in [1..n -> lists]} :
           n \in 0..MaxCompared}
ComparedBoolLists == SeqsUpTo(BOOLEAN, MaxCompareLen)
ResponseTexts == {<<"a">>, <<"A", " ", "b", " ">>}
AnswerTexts == {<<"a">>, <<" ", "a", " ", "B">>, <<>>}

InitCompare ==
    /\ \/ /\ metric = "compare_methods"
          /\ args \in [method_results : DictsOver(ComparedBoolLists),
                       ground_truth : ComparedBoolLists]
       \/ /\ metric = "model_comparison"
          /\ args \in [model_responses : DictsOver(SeqsUpTo(ResponseTexts, MaxCompareLen)),
                       ground_truths : SeqsUpTo(AnswerTexts, MaxCompareLen)]
    /\ metric_ret = <<>>
    /\ AggIdle
    /\ FactIdle
    /\ DetIdle
    /\ ArgIdle
    /\ Constructed
    /\ LlmIdle

CompareMethods ==
    /\ metric = "compare_methods" /\ metric_ret = <<>>
    /\ metric_ret' = Some(compare_methods(args.method_results, args.ground_truth))
    /\ UNCHANGED <<metric, args, aggVars, factVars, detVars, argVars, objVars, llmVars>>

ModelComparison ==
    /\ metric = "model_comparison" /\ metric_ret = <<>>
    /\ metric_ret' = Some(model_comparison(args.model_responses, args.ground_truths))
    /\ UNCHANGED <<metric, args, aggVars, factVars, detVars, argVars, objVars, llmVars>>

NextCompare == CompareMethods \/ ModelComparison

SpecCompare == InitCompare /\ [][NextCompare]_vars

-----------------------------------------------------------------------------
(* RateLimiter *)

\* llm_wrapper.py line 41: the length of the window, in seconds
window == 60

\* lines 33-35
RateLimiter(max_calls_per_minute) == [max_calls |-> max_calls_per_minute, calls |-> <<>>]

\* line 41: [t for t in self.calls if now - t < 60]
recent_calls(calls, now) == SelectSeq(calls, LAMBDA t : now - t < window)

\* line 44, for calls as line 41 left them
sleep_time(calls, now) == window - (now - calls[1])

\* lines 43-47: whether the call sleeps
must_sleep(rl, calls, now) == Len(calls) >= rl.max_calls /\ sleep_time(calls, now) > 0

\* line 47: self.calls = []
calls_after_sleep(calls) == <<>>

\* lines 37-50: the limiter after wait_if_needed entered at time now
wait_if_needed(rl, now) ==
    LET calls == recent_calls(rl.calls, now)
    IN  [rl EXCEPT !.calls =
            Append(IF must_sleep(rl, calls, now) THEN calls_after_sleep(calls) ELSE calls, now)]

\* lines 43-46: the time at which wait_if_needed entered at time now returns
return_time(rl, now) ==
    LET calls == recent_calls(rl.calls, now)
    IN  IF must_sleep(rl, calls, now) THEN now + sleep_time(calls, now) ELSE now

\* Bounds and input domains: limits up to MaxCallsPerMinute, up to MaxWaits
\* calls, each made some seconds after the previous one returned
MaxCallsPerMinute == 3
MaxWaits == 5
Delays == {0, 1, 30, 59, 60}

InitRate ==
    /\ limiter \in {<<RateLimiter(m)>> : m \in 1..MaxCallsPerMinute}
    /\ clock = 0
    /\ passed = <<>>
    /\ prompts = <<>>
    /\ AggIdle
    /\ FactIdle
    /\ DetIdle
    /\ ArgIdle
    /\ EvalIdle
    /\ Constructed

\* one call of wait_if_needed, made delay seconds after the previous one
\* returned; the sleep of line 46 is part of the call
WaitIfNeeded ==
    /\ IsSome(limiter)
    /\ Len(passed) < MaxWaits
    /\ \E delay \in Delays :
        LET now == clock + delay
        IN  /\ limiter' = <<wait_if_needed(Get(limiter), now)>>
            /\ clock' = return_time(Get(limiter), now)
            /\ passed' = Append(passed, return_time(Get(limiter), now))
    /\ UNCHANGED <<prompts, aggVars, factVars, detVars, argVars, evalVars, objVars>>

NextRate == WaitIfNeeded

SpecRate == InitRate /\ [][NextRate]_vars

-----------------------------------------------------------------------------
(* LLMWrapper.batch_generate *)

\* llm_wrapper.py lines 19-27
LLMResponse(txt, model, provider, tokens_used, latency, metadata) ==
    [text |-> txt, model |-> model, provider |-> provider, tokens_used |-> tokens_used,
     latency |-> latency, metadata |-> metadata]

\* line 291: the default of the provider parameter
default_provider == "gemini"

\* lines 315-322: the response recorded for a prompt whose generation failed
error_response(provider, x) ==
    LLMResponse(<<>>, "", provider, 0, 0, [error |-> x.message])

\* Variant of lines 311-322 that records nothing for a failed prompt.
responses_after_failure_skipped(rs, provider, x) == rs
\* lines 311-322: the except clause appends the error response
responses_after_failure(rs, provider, x) == Append(rs, error_response(provider, x))

\* Bound and input domains: up to MaxPrompts prompts; generate returns a
\* response with some text or raises
MaxPrompts == 3
PromptTexts == {<<"p">>, <<"q">>}
Generated(r) == [ok |-> TRUE, response |-> r]
GenerateOutcomes(prompt) ==
    {Generated(LLMResponse(t, "gemini-pro", default_provider, Len(t), 1, <<>>)) :
        t \in {<<>>, prompt, prompt \o <<"!">>}}
    \cup {Raised(x) : x \in Exceptions}

InitBatch ==
    /\ entry = "batch_generate"
    /\ pc = "batch_loop"
    /\ prompts \in SeqsUpTo(PromptTexts, MaxPrompts)
    /\ num_samples = 0 /\ text = <<>>
    /\ mm_methods = <<>> /\ mm_truth = <<>> /\ methods = <<>> /\ mm_results = <<>>
    /\ i = 0 /\ responses = <<>> /\ llm_calls = <<>> /\ ret = <<>>
    /\ limiter = <<>> /\ clock = 0 /\ passed = <<>>
    /\ AggIdle
    /\ FactIdle
    /\ ArgIdle
    /\ EvalIdle
    /\ Constructed

\* lines 306-321: one pass of the loop over the prompts; the call of generate
\* is recorded with the prompt it was given
Batch_Generate ==
    /\ pc = "batch_loop"
    /\ i < Len(prompts)
    /\ \E outcome \in GenerateOutcomes(prompts[i + 1]) :
        /\ llm_calls' = Append(llm_calls, [prompt |-> prompts[i + 1], outcome |-> outcome])
        /\ IF outcome.ok
           THEN /\ responses' = Append(responses, outcome.response)
                /\ i' = i + 1
                /\ pc' = pc
           ELSE IF except_Exception(outcome.error)
           THEN /\ responses' = responses_after_failure(responses, default_provider, outcome.error)
                /\ i' = i + 1
                /\ pc' = pc
           ELSE /\ pc' = "raised"
                /\ UNCHANGED <<responses, i>>
    /\ UNCHANGED <<entry, num_samples, text, mm_methods, mm_truth, methods, mm_results, ret>>
    /\ UNCHANGED <<aggVars, factVars, argVars, evalVars, objVars, llmVars>>

\* line 323
Batch_Return ==
    /\ pc = "batch_loop"
    /\ i >= Len(prompts)
    /\ ret' = Some(responses)
    /\ pc' = "returned"
    /\ UNCHANGED <<entry, num_samples, text, mm_methods, mm_truth, methods, mm_results, i,
                   responses, llm_calls>>
    /\ UNCHANGED <<aggVars, factVars, argVars, evalVars, objVars, llmVars>>

NextBatch == Batch_Generate \/ Batch_Return

SpecBatch == InitBatch /\ [][NextBatch]_vars

-----------------------------------------------------------------------------
(* Claims about aggregate_detection_results, checked under SpecAgg *)

VotingIndices == {k \in DOMAIN results : results[k].is_hallucination}

\* The confidences of AggConfidences are multiples of 1/10: c in tenths.
Tenths(c) == (c[1] * 10) \div c[2]

RECURSIVE SumTenths(_)
SumTenths(K) ==
    IF K = {} THEN 0
    ELSE LET k == CHOOSE x \in K : TRUE
         IN  Tenths(results[k].confidence) + SumTenths(K \ {k})

\* C1: the aggregate says hallucination if and only if the verdicts voting
\* hallucination are strictly more than half of the verdicts supplied; a tie and
\* the empty mapping give false.
C1_StrictMajority ==
    IsSome(aggregated) =>
        (Get(aggregated)[1] <=> 2 * Cardinality(VotingIndices) > Len(results))

\* A tie has been aggregated: two verdicts, one voting hallucination, result false.
C1_Witness ==
    /\ IsSome(aggregated)
    /\ Len(results) = 2
    /\ Cardinality(VotingIndices) = 1
    /\ Get(aggregated)[1] = FALSE

\* The types carried by the verdicts that voted hallucination
VotingTypes == {results[k].hallucination_type : k \in VotingIndices} \ {None}
VotingTypeCount(t) ==
    Cardinality({k \in VotingIndices : results[k].hallucination_type = t})

\* C2: primary_type is a most frequent non-null type among the verdicts that
\* voted hallucination, and "unknown" when none of them carries a type; the type
\* of a verdict that did not vote hallucination never becomes primary_type.
C2_PrimaryTypeFromVotersOnly ==
    IsSome(aggregated) =>
        IF VotingTypes = {} THEN Get(aggregated)[3] = "unknown"
        ELSE /\ Get(aggregated)[3] \in VotingTypes
             /\ \A t \in VotingTypes : VotingTypeCount(t) <= VotingTypeCount(Get(aggregated)[3])

\* C3: the confidence is the arithmetic mean of the confidences of exactly the
\* verdicts that voted hallucination, and 0 when there is none.
C3_MeanOfVoters ==
    IsSome(aggregated) =>
        LET c == Get(aggregated)[2]
            n == Cardinality(VotingIndices)
        IN  IF n = 0 THEN c = <<0, 1>>
            ELSE c[1] * 10 * n = c[2] * SumTenths(VotingIndices)

\* Two voters with confidences 0.7 and 1.0 and a non-voter with another
\* confidence have been aggregated: the mean is 0.85.
C3_Witness ==
    /\ IsSome(aggregated)
    /\ Cardinality(VotingIndices) = 2
    /\ \E k \in DOMAIN results : ~results[k].is_hallucination /\ results[k].confidence = <<0, 1>>
    /\ Get(aggregated)[2] = <<17, 20>>

-----------------------------------------------------------------------------
(* Claims about detect_factual_error, checked under SpecFact *)

ClaimTokenSet == Range(split(normalize(claim)))
TruthTokenSet == Range(split(normalize(ground_truth)))
SharedTokens  == Cardinality(ClaimTokenSet \cap TruthTokenSet)

\* C9: with a ground truth of at least one token the verdict is "not
\* hallucination" if and only if the normalized strings are equal, or every
\* ground-truth token occurs in the claim, or the overlap exceeds 0.7 and
\* numerical_match is true; the confidence is 1 - overlap, 0 on an exact match.
C9_FactualVerdict ==
    (IsSome(factual) /\ TruthTokenSet # {}) =>
        LET r == Get(factual)
            n == Cardinality(TruthTokenSet)
        IN  /\ (~r.is_hallucination) <=>
                    \/ normalize(claim) = normalize(ground_truth)
                    \/ TruthTokenSet \subseteq ClaimTokenSet
                    \/ 10 * SharedTokens > 7 * n /\ r.evidence.numerical_match
            /\ r.confidence[1] * n = r.confidence[2] * (n - SharedTokens)
            /\ (normalize(claim) = normalize(ground_truth) => r.confidence = <<0, 1>>)

\* A claim with three of four ground-truth tokens and matching numbers has been
\* judged: overlap 0.75, not a hallucination, confidence 0.25.
C9_Witness ==
    /\ IsSome(factual)
    /\ Cardinality(TruthTokenSet) = 4
    /\ SharedTokens = 3
    /\ Get(factual).evidence.numerical_match
    /\ ~Get(factual).is_hallucination
    /\ Get(factual).confidence = <<1, 4>>

\* C10: numerical_match is false exactly when the ground truth holds a number
\* and the numbers of the claim differ from the numbers of the ground truth as
\* sets (order and repetition do not count).
C10_NumericalMatchAsSets ==
    (IsSome(factual) /\ TruthTokenSet # {}) =>
        LET ev == Get(factual).evidence
        IN  (~ev.numerical_match) <=>
                /\ ev.truth_numbers # <<>>
                /\ Range(ev.claim_numbers) # Range(ev.truth_numbers)

\* C11: when the ground truth holds nothing but whitespace and punctuation
\* (so it has zero tokens after normalization), the call returns the verdict
\* "not hallucination", confidence 0, no type, and the evidence is the
\* "Empty ground truth" flag.
C11_EmptyGroundTruth ==
    (IsSome(factual) /\ \A k \in DOMAIN ground_truth :
                            ground_truth[k] \in Whitespace \cup Punctuation) =>
        LET r == Get(factual)
        IN  /\ r.is_hallucination = FALSE
            /\ r.confidence = <<0, 1>>
            /\ r.hallucination_type = None
            /\ r.evidence = [error |-> "Empty ground truth"]

\* A claim with tokens has been judged against a ground truth of punctuation
\* and whitespace only.
C11_Witness ==
    /\ IsSome(factual)
    /\ ground_truth = <<" ", "?", "!", " ">>
    /\ ClaimTokenSet # {}
    /\ Get(factual).evidence = [error |-> "Empty ground truth"]

-----------------------------------------------------------------------------
(* Claims about detect_self_consistency and detect_contradiction, checked
   under SpecDet *)

SCReturned == entry = "detect_self_consistency" /\ pc = "returned"

\* The texts of the generate calls that returned, stripped and lowered, in call order
SuccessfulResponses ==
    LET ok == SelectSeq(llm_calls, LAMBDA o : o.ok)
    IN  [k \in DOMAIN ok |-> lower(strip(ok[k].text))]

\* C4: with fewer than 2 successful generate calls the verdict is the forced
\* one (hallucination, confidence 1.0, "generation_failed"); with 2 or more it is
\* computed from the agreement of the successful responses only.
C4_FailSafeBelowTwo ==
    SCReturned =>
        LET r == Get(ret)
        IN  IF Len(SuccessfulResponses) < 2
            THEN /\ r.is_hallucination
                 /\ r.confidence = <<1, 1>>
                 /\ r.hallucination_type = "generation_failed"
            ELSE /\ r.hallucination_type # "generation_failed"
                 /\ r.evidence.responses = SuccessfulResponses
                 /\ r.evidence.num_samples = Len(SuccessfulResponses)
                 /\ r.evidence.agreement_score = _calculate_agreement(SuccessfulResponses)
                 /\ r.is_hallucination <=> RLt(r.evidence.agreement_score, <<3, 5>>)

\* Three calls, one success and two failures: the forced verdict was returned.
C4_Witness ==
    /\ SCReturned
    /\ num_samples = 3
    /\ Len(SuccessfulResponses) = 1
    /\ Get(ret).hallucination_type = "generation_failed"

ContradictionReturned == entry = "detect_contradiction" /\ pc = "returned"

\* C6: when the generate call fails the verdict is not hallucination, confidence
\* 0, no type, with the error text in the evidence; when it succeeds the verdict
\* is hallucination exactly when the analysis does not contain "no
\* contradictions" in any letter case, with confidence 0.7.
C6_ContradictionVerdict ==
    ContradictionReturned =>
        LET r == Get(ret)
            o == llm_calls[1]
        IN  IF o.ok
            THEN /\ r.is_hallucination <=>
                        ~\E k \in 1..Len(o.text) :
                            k + Len(NoContradictions) - 1 <= Len(o.text) /\
                            \A j \in DOMAIN NoContradictions :
                                LowerChar(o.text[k + j - 1]) = NoContradictions[j]
                 /\ r.confidence = <<7, 10>>
            ELSE /\ ~r.is_hallucination
                 /\ r.confidence = <<0, 1>>
                 /\ r.hallucination_type = None
                 /\ r.evidence.error = o.error.message

\* The generate call of detect_contradiction raised and the de-escalated verdict
\* came back with the error text.
C6_Witness ==
    /\ ContradictionReturned
    /\ ~llm_calls[1].ok
    /\ ~Get(ret).is_hallucination
    /\ Get(ret).evidence.error = "provider down"

\* C7: at least 2 responses that are all the same string (the empty string
\* included) have agreement exactly 1.0 and are not reported as a hallucination.
C7_IdenticalResponsesAgree ==
    (SCReturned /\ Len(responses) >= 2 /\ \A k \in DOMAIN responses : responses[k] = responses[1]) =>
        /\ Get(ret).evidence.agreement_score = <<1, 1>>
        /\ ~Get(ret).is_hallucination

\* The Jaccard similarity of two token sets, 0 for two empty sets
Jaccard(A, B) ==
    IF A \cup B = {} THEN <<0, 1>> ELSE R(Cardinality(A \cap B), Cardinality(A \cup B))

RECURSIVE SumJaccard(_, _)
SumJaccard(T, P) ==
    IF P = {} THEN <<0, 1>>
    ELSE LET q == CHOOSE x \in P : TRUE
         IN  RAdd(Jaccard(T[q[1]], T[q[2]]), SumJaccard(T, P \ {q}))

\* C8: for N >= 2 responses the agreement is 0.5 * (count of the most frequent
\* string)/N + 0.5 * the mean of the Jaccard similarity over all N(N-1)/2
\* unordered pairs of token sets, two empty token sets counting 0.0.
C8_AgreementOverAllPairs ==
    (SCReturned /\ Len(responses) >= 2) =>
        LET n     == Len(responses)
            T     == [k \in 1..n |-> Range(split(responses[k]))]
            P     == {q \in (1..n) \X (1..n) : q[1] < q[2]}
            most  == CHOOSE c \in 1..n :
                        /\ \E x \in Range(responses) : Count(responses, x) = c
                        /\ \A x \in Range(responses) : Count(responses, x) <= c
            exact == R(most, n)
            mean  == RDiv(SumJaccard(T, P), RInt(Cardinality(P)))
        IN  Get(ret).evidence.agreement_score = RAdd(RMul(R(1, 2), exact), RMul(R(1, 2), mean))

-----------------------------------------------------------------------------
(* Claims about the failures of the generate calls, checked under SpecMulti *)

ResultKeys(d) == {d[k][1] : k \in DOMAIN d}

\* C5: whatever generate calls raise, detect_self_consistency,
\* detect_contradiction and multi_method_detection never let the exception out
\* and every call stands at a step of the code or has returned;
\* multi_method_detection returns a verdict for every method it dispatched.
C5_NoProviderErrorEscapes ==
    /\ pc # "raised"
    /\ pc = "returned" <=> IsSome(ret)
    /\ (entry = "multi_method_detection" /\ pc = "returned") =>
          /\ \A m \in {"self_consistency", "contradiction", "temporal"} :
                In(m, methods) => m \in ResultKeys(Get(ret))
          /\ (In("factual", methods) /\ TruthyText(mm_truth)) => "factual" \in ResultKeys(Get(ret))

\* multi_method_detection returned after every one of its six generate calls raised.
C5_Witness ==
    /\ entry = "multi_method_detection"
    /\ pc = "returned"
    /\ Len(llm_calls) = default_num_samples + 1
    /\ \A k \in DOMAIN llm_calls : ~llm_calls[k].ok
    /\ ResultKeys(Get(ret)) = {"self_consistency", "contradiction", "temporal"}

-----------------------------------------------------------------------------
(* Claims about detect_temporal_error, checked under SpecTemp *)

TemporalReturned == entry = "detect_temporal_error" /\ pc = "returned"

\* The positions of the text where a number of exactly four digits stands by
\* itself, and the number standing there.
FourDigitYearAt(p) ==
    /\ p + 3 <= Len(text)
    /\ \A k \in 0..3 : IsDigit(text[p + k])
    /\ p = 1 \/ ~IsWordChar(text[p - 1])
    /\ p + 4 > Len(text) \/ ~IsWordChar(text[p + 4])
FourDigitYears == {p \in 1..Len(text) : FourDigitYearAt(p)}
YearAt(p) == 1000 * DigitValue(text[p]) + 100 * DigitValue(text[p + 1])
             + 10 * DigitValue(text[p + 2]) + DigitValue(text[p + 3])

\* C12: a text whose only year is a four-digit year above the 2025 cutoff
\* (such as "It happened in 2099") is judged a hallucination of type
\* "temporal_error", and years_found lists exactly that year.
C12_FutureYearFlagged ==
    (TemporalReturned /\ Cardinality(FourDigitYears) = 1) =>
        LET y == YearAt(CHOOSE p \in FourDigitYears : TRUE)
            r == Get(ret)
        IN  y > 2025 =>
                /\ r.is_hallucination
                /\ r.hallucination_type = "temporal_error"
                /\ "years_found" \in DOMAIN r.evidence
                /\ r.evidence.years_found = <<y>>

\* C13: without an extracted year the verdict is "not hallucination" with
\* confidence 0; otherwise it is "hallucination" if and only if an extracted
\* year exceeds 2025, or a context year is supplied and every extracted year
\* differs from it by more than 10; the confidence is 0.9 for a hallucination
\* and 0.7 otherwise.
C13_TemporalVerdict ==
    TemporalReturned =>
        LET years == FindYears(text, 1)
            r     == Get(ret)
        IN  IF years = <<>>
            THEN ~r.is_hallucination /\ r.confidence = <<0, 1>>
            ELSE /\ r.is_hallucination <=>
                        \/ \E k \in DOMAIN years : years[k] > 2025
                        \/ /\ context_year # <<>>
                           /\ \A k \in DOMAIN years :
                                  Abs(years[k] - context_year[1]) > 10
                 /\ r.confidence = IF r.is_hallucination THEN <<9, 10>> ELSE <<7, 10>>

-----------------------------------------------------------------------------
(* Claims about detect_entity_hallucination, checked under SpecEntity *)

EntityReturned == entry = "detect_entity_hallucination" /\ pc = "returned"

\* The entity x occurs in the text, letter case ignored.
OccursInText(x) ==
    \E start \in 0..(Len(text) - Len(x)) :
        \A k \in 1..Len(x) : LowerChar(text[start + k]) = LowerChar(x[k])

\* C14: the verdict is "hallucination" if and only if a capitalized span of
\* the text is not in the expected list, or an expected entity is missing
\* while no expected entity was found; the confidence is 0.8 for a
\* hallucination and 0.9 otherwise.
C14_EntityVerdict ==
    EntityReturned =>
        LET r          == Get(ret)
            spans      == FindCapitalizedSpans(text, 1)
            unexpected == \E k \in DOMAIN spans :
                              \A j \in DOMAIN expected_entities : expected_entities[j] # spans[k]
            missing    == \E j \in DOMAIN expected_entities : ~OccursInText(expected_entities[j])
            found      == \E j \in DOMAIN expected_entities : OccursInText(expected_entities[j])
        IN  /\ r.is_hallucination <=> (unexpected \/ (missing /\ ~found))
            /\ r.confidence = IF r.is_hallucination THEN <<4, 5>> ELSE <<9, 10>>

\* A text without a capitalized span has been judged against two expected
\* entities, one found and one missing: no hallucination, confidence 0.9.
C14_Witness ==
    /\ EntityReturned
    /\ text = <<"a", "l">>
    /\ expected_entities = << <<"A", "l">>, <<"B", "o">> >>
    /\ ~Get(ret).is_hallucination
    /\ Get(ret).confidence = <<9, 10>>
    /\ Len(Get(ret).evidence.missing_entities) = 1

-----------------------------------------------------------------------------
(* Claims about the dispatch of multi_method_detection, checked under SpecMulti *)

MultiReturned == entry = "multi_method_detection" /\ pc = "returned"

\* the methods of the list passed in that multi_method_detection knows
RequestedMethods ==
    IF mm_methods = <<>> THEN {} ELSE Range(mm_methods[1]) \cap Range(MethodNames)

NonEmptyTruth == mm_truth # <<>> /\ Len(mm_truth[1]) > 0

\* C15 as stated: without a methods list the verdicts are exactly those of
\* self_consistency, contradiction and temporal, plus factual if and only if a
\* ground truth is supplied; with a methods list there is a verdict for each
\* requested method among the four and for no other method.
C15_DispatchAsRequested ==
    MultiReturned =>
        ResultKeys(Get(ret)) =
            IF mm_methods = <<>>
            THEN {"self_consistency", "contradiction", "temporal"}
                    \cup (IF mm_truth # <<>> THEN {"factual"} ELSE {})
            ELSE RequestedMethods

\* C15 amended: the factual verdict is returned only with a non-empty ground
\* truth, by default and on request alike; everything else as stated.
C15_DispatchNeedsTruthForFactual ==
    MultiReturned =>
        ResultKeys(Get(ret)) =
            IF mm_methods = <<>>
            THEN {"self_consistency", "contradiction", "temporal"}
                    \cup (IF NonEmptyTruth THEN {"factual"} ELSE {})
            ELSE RequestedMethods \ (IF NonEmptyTruth THEN {} ELSE {"factual"})

\* A call without a methods list and with a ground truth has returned the four
\* verdicts, in the order of dispatch.
C15_Witness ==
    /\ MultiReturned
    /\ mm_methods = <<>>
    /\ NonEmptyTruth
    /\ [k \in DOMAIN Get(ret) |-> Get(ret)[k][1]] =
           <<"self_consistency", "factual", "contradiction", "temporal">>

-----------------------------------------------------------------------------
(* Claims about confidence_calibration, checked under SpecEval *)

MetricReturned(name) ==
    metric = name /\ IsSome(metric_ret) /\ Get(metric_ret).kind = "returned"

\* The confidences of the modelled calls are multiples of 1/20.
Twentieths(c) == (20 * c[1]) \div c[2]

\* The samples the code counts in bin b, the sum of their confidences (in
\* twentieths) and the number of correct ones among them.
BinMembers(b) ==
    {k \in DOMAIN args.confidences : bin_index(args.confidences[k], args.num_bins) = b}

RECURSIVE SumTwentieths(_)
SumTwentieths(K) ==
    IF K = {} THEN 0
    ELSE LET k == CHOOSE x \in K : TRUE
         IN  Twentieths(args.confidences[k]) + SumTwentieths(K \ {k})

BinCorrect(b) == Cardinality({k \in BinMembers(b) : args.correct[k]})

\* count * |mean confidence - fraction correct| of bin b, in twentieths
BinDeviation(b) == Abs(SumTwentieths(BinMembers(b)) - 20 * BinCorrect(b))

RECURSIVE SumBinDeviation(_)
SumBinDeviation(B) ==
    IF B = {} THEN 0
    ELSE LET b == CHOOSE x \in B : TRUE
         IN  BinDeviation(b) + SumBinDeviation(B \ {b})

SpecExampleArgs ==
    [confidences |-> <<R(9, 10), R(9, 10)>>, correct |-> <<TRUE, TRUE>>, num_bins |-> 10]

\* C16 as stated: confidences [0.9, 0.9], correctness [True, True] and 10 bins
\* give an Expected Calibration Error of exactly 0.0.
C16_ExampleEceIsZero ==
    (MetricReturned("confidence_calibration") /\ args = SpecExampleArgs) =>
        Get(metric_ret).value.ece = <<0, 1>>

\* C16 amended: the same call gives the Expected Calibration Error
\* |0.9 - 1.0| = 0.1, from the single occupied bin 9 with mean confidence 0.9,
\* accuracy 1.0 and count 2.
C16_ExampleEceIsOneTenth ==
    (MetricReturned("confidence_calibration") /\ args = SpecExampleArgs) =>
        LET v == Get(metric_ret).value
        IN  /\ v.ece = <<1, 10>>
            /\ Len(v.bins) = 1
            /\ v.bins[1].bin = 9
            /\ v.bins[1].count = 2
            /\ v.bins[1].avg_confidence = <<9, 10>>
            /\ v.bins[1].accuracy = <<1, 1>>
            /\ v.bins[1].gap = <<1, 10>>

\* The call of the example has returned.
C16_Witness ==
    /\ MetricReturned("confidence_calibration")
    /\ args = SpecExampleArgs
    /\ Get(metric_ret).value.num_bins = 10

\* C17: for non-empty inputs of equal length the ECE is the sum over the
\* non-empty bins of (count / total) * |mean confidence - fraction correct of
\* the bin|, and the gap of each reported bin is that absolute difference.
C17_EceIsWeightedGapSum ==
    (MetricReturned("confidence_calibration") /\ args.confidences # <<>>) =>
        LET v == Get(metric_ret).value
            N == Len(args.confidences)
        IN  /\ v.ece[1] * 20 * N = v.ece[2] * SumBinDeviation(0..(args.num_bins - 1))
            /\ \A j \in DOMAIN v.bins :
                  LET b == v.bins[j].bin
                  IN  v.bins[j].gap[1] * 20 * Cardinality(BinMembers(b))
                          = v.bins[j].gap[2] * BinDeviation(b)

\* Three samples in two bins of ten: bin 2 holds 0.25 (wrong) and bin 9 holds
\* 0.9 twice (one correct); ECE = (1/3) * 0.25 + (2/3) * 0.4 = 0.35.
C17_Witness ==
    /\ MetricReturned("confidence_calibration")
    /\ args = [confidences |-> <<R(9, 10), R(1, 4), R(9, 10)>>,
               correct |-> <<TRUE, FALSE, FALSE>>, num_bins |-> 10]
    /\ Len(Get(metric_ret).value.bins) = 2
    /\ Get(metric_ret).value.ece = <<7, 20>>

\* c lies in bin b of n equal bins of [0,1]: b/n <= c < (b+1)/n, the last bin
\* closed at 1.0
InBin(c, b, n) ==
    /\ b * c[2] <= c[1] * n
    /\ c[1] * n < (b + 1) * c[2] \/ (b = n - 1 /\ c[1] = c[2])

RECURSIVE SumCounts(_)
SumCounts(bins) == IF bins = <<>> THEN 0 ELSE Head(bins).count + SumCounts(Tail(bins))

-----------------------------------------------------------------------------
(* Claims about the confusion metrics and the length checks, checked under
   SpecEval *)

PairsWhere(p, g) ==
    {k \in DOMAIN args.predictions :
        k \in DOMAIN args.ground_truth /\ args.predictions[k] = p /\ args.ground_truth[k] = g}

\* C19: for equal lengths every position is counted in exactly one of tp, fp,
\* fn, tn, with hallucination (true) as the positive class; precision is
\* tp/(tp+fp) and recall tp/(tp+fn), each 0.0 when its denominator is 0; when
\* the predictions equal the labels and a label is true, precision, recall and
\* f1 are 1.0 and fp and fn are 0.
C19_ConfusionMetrics ==
    (metric = "precision_recall_f1" /\ IsSome(metric_ret)
        /\ Len(args.predictions) = Len(args.ground_truth)) =>
        /\ Get(metric_ret).kind = "returned"
        /\ LET v == Get(metric_ret).value
           IN  /\ v.tp = Cardinality(PairsWhere(TRUE, TRUE))
               /\ v.fp = Cardinality(PairsWhere(TRUE, FALSE))
               /\ v.fn = Cardinality(PairsWhere(FALSE, TRUE))
               /\ v.tn = Cardinality(PairsWhere(FALSE, FALSE))
               /\ v.tp + v.fp + v.fn + v.tn = Len(args.predictions)
               /\ IF v.tp + v.fp = 0 THEN v.precision = <<0, 1>>
                  ELSE v.precision[1] * (v.tp + v.fp) = v.precision[2] * v.tp
               /\ IF v.tp + v.fn = 0 THEN v.recall = <<0, 1>>
                  ELSE v.recall[1] * (v.tp + v.fn) = v.recall[2] * v.tp
               /\ (args.predictions = args.ground_truth /\ PairsWhere(TRUE, TRUE) # {}) =>
                      /\ v.precision = <<1, 1>> /\ v.recall = <<1, 1>> /\ v.f1 = <<1, 1>>
                      /\ v.fp = 0 /\ v.fn = 0

\* precision_recall_f1([True, False], [True, False]) has returned precision,
\* recall and f1 1.0 with tp = 1 and tn = 1.
C19_Witness ==
    /\ MetricReturned("precision_recall_f1")
    /\ args = [predictions |-> <<TRUE, FALSE>>, ground_truth |-> <<TRUE, FALSE>>]
    /\ Get(metric_ret).value =
           [precision |-> <<1, 1>>, recall |-> <<1, 1>>, f1 |-> <<1, 1>>,
            tp |-> 1, fp |-> 0, fn |-> 0, tn |-> 1]

\* the lengths of the parallel sequences of the call
ArgLengths == {Len(args[f]) : f \in DOMAIN args \ {"num_bins"}}

\* C20: accuracy, precision_recall_f1, confidence_calibration,
\* error_analysis_by_type and mitigation_effectiveness end with a ValueError
\* about the lengths, and without a result, whenever the parallel sequences
\* passed to them differ in length.
C20_LengthMismatchRaises ==
    (IsSome(metric_ret) /\ Cardinality(ArgLengths) > 1) =>
        /\ metric \in {"accuracy", "precision_recall_f1", "confidence_calibration",
                       "error_analysis_by_type", "mitigation_effectiveness"}
        /\ Get(metric_ret).kind = "raised"
        /\ "value" \notin DOMAIN Get(metric_ret)
        /\ Get(metric_ret).error.class = "ValueError"
        /\ Get(metric_ret).error.message \in
               {"Predictions and ground truth must have same length",
                "Confidences and correct must have same length",
                "All inputs must have same length",
                "Inputs must have same length"}

\* error_analysis_by_type has raised for predictions and labels of equal
\* length and a shorter list of types.
C20_Witness ==
    /\ metric = "error_analysis_by_type"
    /\ IsSome(metric_ret)
    /\ Len(args.predictions) = 2 /\ Len(args.ground_truth) = 2
    /\ Len(args.hallucination_types) = 1
    /\ Get(metric_ret).kind = "raised"

\* C22: mitigation_effectiveness called with the same boolean list, of any
\* length, as baseline and as mitigated returns absolute_reduction 0,
\* relative_reduction_percent 0 and net_improvement 0.
C22_IdenticalListsNoReduction ==
    (/\ metric = "mitigation_effectiveness" /\ IsSome(metric_ret)
     /\ args.baseline_hallucinations = args.mitigated_hallucinations) =>
        /\ Get(metric_ret).kind = "returned"
        /\ Get(metric_ret).value.absolute_reduction = RInt(0)
        /\ Get(metric_ret).value.relative_reduction_percent = RInt(0)
        /\ Get(metric_ret).value.net_improvement = 0

-----------------------------------------------------------------------------
(* Claims about compare_methods and model_comparison, checked under SpecCompare *)

ComparedItems ==
    IF metric = "compare_methods" THEN args.method_results ELSE args.model_responses
ComparedTruth ==
    IF metric = "compare_methods" THEN args.ground_truth ELSE args.ground_truths
ComparedKeys(items) == {items[k][1] : k \in DOMAIN items}

\* C21: when compare_methods or model_comparison is given a method or model
\* whose list is not as long as the ground truth, the call raises an error,
\* and a mapping that is returned has an entry for every method or model
\* that was supplied.
C21_MismatchRaisesNeverSkips ==
    (metric \in {"compare_methods", "model_comparison"} /\ metric_ret # <<>>) =>
        /\ (\E k \in DOMAIN ComparedItems : length_mismatch(ComparedItems[k][2], ComparedTruth))
              => Get(metric_ret).kind = "raised"
        /\ Get(metric_ret).kind = "returned"
              => ComparedKeys(Get(metric_ret).value) = ComparedKeys(ComparedItems)

-----------------------------------------------------------------------------
(* Claims about the verdicts of every method, checked under SpecDetector *)

\* the verdicts the calls have produced so far, as a list: the value returned
\* by a detection method called by itself, and the entries of the dict that
\* multi_method_detection builds and returns
ProducedVerdicts ==
    (IF IsSome(factual) THEN <<Get(factual)>> ELSE <<>>)
    \o (IF IsSome(ret) /\ entry # "multi_method_detection" THEN <<Get(ret)>> ELSE <<>>)
    \o DictValues(mm_results)
InUnitInterval(c) == RLe(RInt(0), c) /\ RLe(c, RInt(1))

\* C23: every verdict of the five detection methods has a confidence within
\* [0,1], whatever the inputs and the outcomes of the generate calls, and so
\* has the confidence that aggregate_detection_results returns.
C23_ConfidenceInUnitInterval ==
    /\ \A k \in DOMAIN ProducedVerdicts : InUnitInterval(ProducedVerdicts[k].confidence)
    /\ IsSome(aggregated) => InUnitInterval(Get(aggregated)[2])
\* a self-consistency verdict from compared responses with a confidence strictly
\* between 1/2 and 1, and an aggregate of the verdicts of one
\* multi_method_detection call whose confidence is strictly between 0 and 1
C23_Witness ==
    /\ entry = "multi_method_detection"
    /\ IsSome(aggregated)
    /\ RLt(RInt(0), Get(aggregated)[2]) /\ RLt(Get(aggregated)[2], RInt(1))
    /\ \E k \in DOMAIN ProducedVerdicts :
          LET v == ProducedVerdicts[k]
          IN  /\ v.detection_method = "self_consistency"
              /\ v.hallucination_type # "generation_failed"
              /\ RLt(R(1, 2), v.confidence) /\ RLt(v.confidence, RInt(1))

\* what multi_method_detection returns, as a function of its arguments and of
\* the outcomes of the generate calls in call order
CollectedTexts(calls) ==
    LET successful == SelectSeq(calls, LAMBDA c : c.ok)
    IN  [k \in DOMAIN successful |-> lower(strip(successful[k].text))]
MultiResultsFrom(txt, methods_arg, truth_arg, calls) ==
    LET ms == IF methods_arg = <<>> THEN default_methods(truth_arg) ELSE methods_arg[1]
        n  == IF In("self_consistency", ms) THEN default_num_samples ELSE 0
    IN  (IF In("self_consistency", ms)
         THEN << <<"self_consistency",
                   self_consistency_result(CollectedTexts(SubSeq(calls, 1, n)))>> >>
         ELSE <<>>)
        \o (IF In("factual", ms) /\ TruthyText(truth_arg)
            THEN << <<"factual", detect_factual_error(txt, truth_arg[1])>> >>
            ELSE <<>>)
        \o (IF In("contradiction", ms)
            THEN << <<"contradiction", contradiction_result(txt, calls[n + 1])>> >>
            ELSE <<>>)
        \o (IF In("temporal", ms)
            THEN << <<"temporal", detect_temporal_error(txt, <<>>)>> >>
            ELSE <<>>)

\* no step of a call changes the detector's fields, the list the caller
\* passed as methods, the verdicts passed to aggregate_detection_results, or
\* a value already returned
LastingStateKept ==
    /\ self' = self
    /\ mm_methods' = mm_methods
    /\ results' = results
    /\ IsSome(ret) => ret' = ret

\* C24: no call to a detection method, to multi_method_detection or to
\* aggregate_detection_results changes state that outlives the call (the
\* detector's llm and knowledge_base, the caller's methods list, the verdicts
\* passed to the aggregation), and what detect_self_consistency and
\* multi_method_detection with the default methods return is determined by
\* the arguments and the outcomes of the generate calls.
C24_CallsLeaveNoTrace ==
    /\ [][LastingStateKept]_vars
    /\ []((MultiReturned /\ mm_methods = <<>>)
             => Get(ret) = MultiResultsFrom(text, mm_methods, mm_truth, llm_calls))
    /\ []((entry = "detect_self_consistency" /\ pc = "returned")
             => Get(ret) = self_consistency_result(CollectedTexts(llm_calls)))
\* multi_method_detection has returned for a caller who passed a methods list
\* without "factual" together with a ground truth, and the returned dict has
\* been aggregated
C24_Witness ==
    /\ MultiReturned
    /\ mm_methods # <<>> /\ ~In("factual", mm_methods[1]) /\ Len(mm_methods[1]) >= 2
    /\ TruthyText(mm_truth)
    /\ Len(llm_calls) = default_num_samples + 1
    /\ IsSome(aggregated)

-----------------------------------------------------------------------------
(* Claims about the sampling loop of detect_self_consistency, checked under SpecDet *)

\* C25: detect_self_consistency issues exactly num_samples generate calls, one
\* per pass of its loop; a failed call is not repeated and does not end the
\* loop or the call, and the responses collected are the texts of the
\* successful calls in call order.
C25_ExactlyNumSamplesCalls ==
    entry = "detect_self_consistency" =>
        /\ pc \in {"sc_loop", "returned"}
        /\ Len(llm_calls) = i
        /\ i <= num_samples
        /\ responses = CollectedTexts(llm_calls)
        /\ Len(responses) = Cardinality({k \in DOMAIN llm_calls : llm_calls[k].ok})
        /\ pc = "returned" => Len(llm_calls) = num_samples
\* a call with four samples has returned after a failed second call that was
\* followed by two successful ones
C25_Witness ==
    /\ entry = "detect_self_consistency" /\ pc = "returned"
    /\ num_samples = 4
    /\ llm_calls[1].ok /\ ~llm_calls[2].ok /\ llm_calls[3].ok /\ llm_calls[4].ok
    /\ Len(responses) = 3

-----------------------------------------------------------------------------
(* Claims about RateLimiter, checked under SpecRate *)

\* the calls that wait_if_needed let through in the window that starts at from
PassedInWindow(from) == {k \in DOMAIN passed : from <= passed[k] /\ passed[k] < from + window}

\* C26: for a limiter with max_calls_per_minute >= 1 and calls of
\* wait_if_needed at non-decreasing times, no window of 60 seconds holds more
\* than max_calls_per_minute returns of wait_if_needed.
C26_AtMostMaxCallsPerWindow ==
    IsSome(limiter) =>
        \A k \in DOMAIN passed :
            Cardinality(PassedInWindow(passed[k])) <= Get(limiter).max_calls

-----------------------------------------------------------------------------
(* Claims about batch_generate, checked under SpecBatch *)

\* the response batch_generate owes for its k-th call of generate
ResponseFor(call) ==
    IF call.outcome.ok
    THEN call.outcome.response
    ELSE LLMResponse(<<>>, "", default_provider, 0, 0, [error |-> call.outcome.error.message])

\* C27: batch_generate does not raise when a generate call fails; it calls
\* generate once for each prompt, in order, and returns one response per
\* prompt, in prompt order: what generate returned for that prompt, or a
\* response with empty text and the error in its metadata when generate
\* raised; the prompts after a failed one are still processed.
C27_OneResponsePerPrompt ==
    entry = "batch_generate" =>
        /\ pc \in {"batch_loop", "returned"}
        /\ Len(llm_calls) = i /\ Len(responses) = i /\ i <= Len(prompts)
        /\ \A k \in 1..i :
              /\ llm_calls[k].prompt = prompts[k]
              /\ responses[k] = ResponseFor(llm_calls[k])
        /\ pc = "returned" => (Get(ret) = responses /\ Len(Get(ret)) = Len(prompts))
\* three prompts, the first and the third generated, the second failed
C27_Witness ==
    /\ entry = "batch_generate" /\ pc = "returned"
    /\ Len(prompts) = 3 /\ prompts[1] # prompts[2]
    /\ llm_calls[1].outcome.ok /\ ~llm_calls[2].outcome.ok /\ llm_calls[3].outcome.ok
    /\ Get(ret)[2].text = <<>> /\ Get(ret)[2].metadata.error = "provider down"
    /\ Get(ret)[3].text = prompts[3] \o <<"!">>

-----------------------------------------------------------------------------
(* Claims about multi_method_detection followed by aggregate_detection_results, *)
(* checked under SpecDetector                                                   *)

\* multi_method_detection was called without methods and without ground truth,
\* every generate call it made has raised, and the dict it returned has been
\* aggregated
AllGenerationFailed ==
    /\ entry = "multi_method_detection"
    /\ mm_methods = <<>> /\ mm_truth = <<>>
    /\ IsSome(aggregated)
    /\ \A k \in DOMAIN llm_calls : ~llm_calls[k].ok
NoYearAboveCutoff == \A p \in FourDigitYears : YearAt(p) <= current_year

\* C28: when every generate call fails and no ground truth is supplied,
\* multi_method_detection with the default methods followed by
\* aggregate_detection_results gives, for a response text without a year above
\* 2025, is_hallucination false (one vote of three, the self-consistency
\* fail-safe), confidence 1.0 and primary_type "generation_failed".
C28_AllFailedAggregate ==
    (AllGenerationFailed /\ NoYearAboveCutoff) =>
        /\ Get(aggregated) = <<FALSE, RInt(1), "generation_failed">>
        /\ Len(Get(ret)) = 3
        /\ Cardinality({k \in DOMAIN Get(ret) : Get(ret)[k][2].is_hallucination}) = 1
        /\ Get(ret)[1][1] = "self_consistency" /\ Get(ret)[1][2].is_hallucination
\* such a call on a text that holds the year 1999, after six failed calls
C28_Witness ==
    /\ AllGenerationFailed
    /\ NoYearAboveCutoff /\ FourDigitYears # {}
    /\ Len(llm_calls) = default_num_samples + 1

-----------------------------------------------------------------------------
(* Claims about the type of every verdict, checked under SpecDetector *)

\* C29: every verdict of the five detection methods, the fail-safe and the
\* degenerate-case verdicts included, has a hallucination_type other than
\* None if and only if its is_hallucination is true.
C29_TypeIffHallucination ==
    \A k \in DOMAIN ProducedVerdicts :
        (ProducedVerdicts[k].hallucination_type # None) <=> ProducedVerdicts[k].is_hallucination
\* multi_method_detection has returned four verdicts: the self-consistency
\* fail-safe with a type, the verdict of the failed contradiction call
\* without one, and a factual verdict without one
C29_Witness ==
    /\ MultiReturned
    /\ Len(mm_results) = 4
    /\ \A k \in DOMAIN llm_calls : ~llm_calls[k].ok
    /\ mm_results[1][2].hallucination_type = "generation_failed"
    /\ mm_results[2][1] = "factual" /\ ~mm_results[2][2].is_hallucination
    /\ mm_results[3][2].hallucination_type = None
    /\ "error" \in DOMAIN mm_results[3][2].evidence

-----------------------------------------------------------------------------
(* Claims about the entities detect_entity_hallucination reports, checked under SpecEntity *)

\* the span equals, letter case ignored, an entity reported as found
ReportedFound(span) ==
    \E j \in DOMAIN Get(ret).evidence.found_entities :
        lower(Get(ret).evidence.found_entities[j]) = lower(span)

\* C30: detect_entity_hallucination reports no entity both as found and as
\* unexpected: a capitalized span that equals, letter case ignored, an
\* expected entity reported in found_entities is not listed in
\* unexpected_entities and does not make the verdict a hallucination.
C30_FoundNeverUnexpected ==
    EntityReturned =>
        LET r     == Get(ret)
            spans == FindCapitalizedSpans(text, 1)
        IN  /\ \A k \in DOMAIN r.evidence.unexpected_entities :
                  ~ReportedFound(r.evidence.unexpected_entities[k])
            /\ r.is_hallucination =>
                  \/ \E k \in DOMAIN spans :
                        ~In(spans[k], expected_entities) /\ ~ReportedFound(spans[k])
                  \/ (r.evidence.missing_entities # <<>> /\ r.evidence.found_count = 0)
=============================================================================
